---- MODULE Spec2Model ----
(***************************************************************************)
(* Model of the secrets daemon's RequestProcessor                          *)
(* (src/daemon/SecretsImpl/secretsrequestprocessor.cpp).                   *)
(*                                                                         *)
(* The dispatch thread owns the processor's maps; every API entry point,   *)
(* every QFutureWatcher::finished lambda, the user-input-completed slot    *)
(* and the relock-timer slot is one atomic action.  A job handed to        *)
(* QtConcurrent::run is run by WorkerRun (the plugin effect, off thread)   *)
(* and its continuation is a separate ...Finished action.                  *)
(***************************************************************************)
EXTENDS Naturals, FiniteSets, Sequences, TLC

\* ---------------------------------------------------------------- bounds
MaxRequests == 3
MaxInFlight == 2

\* ---------------------------------------------------------------- inputs
Pids == {"appA", "appB"}
CollectionNames == {"c1"}
SecretNames == {"s1"}
SecretData == {"d1"}
Passphrases == {"pw", "bad"}
\* the passphrases the user chooses for a new collection
NewPassphrases == {"pw"}

NoKey == <<"nokey", "">>
\* the device lock key the daemon derives from the lock code at start-up
InitialDeviceLockKey == <<"devicelock", "old">>

\* Result(code, errorCode): Result::code() is Succeeded, Pending or Failed
Succeeded == [code |-> "Succeeded", errorCode |-> "NoError"]
Pending == [code |-> "Pending", errorCode |-> "NoError"]
Error(e) == [code |-> "Failed", errorCode |-> e]

\* m_appPermissions->applicationId(callerPid)
applicationId(callerPid) == callerPid

\* the plugin registries filled by the constructor
m_storagePlugins == {"store"}
m_encryptionPlugins == {"enc"}
m_encryptedStoragePlugins == {"encstore"}
m_authenticationPlugins == {"auth"}
StoragePluginNames == m_storagePlugins \cup m_encryptedStoragePlugins

\* Daemon::Util::generateHashedSecretName(collectionName, secretName)
generateHashedSecretName(collectionName, secretName) == collectionName \o "#" \o secretName

\* EncryptionPluginWrapper::deriveKeyFromCode(code, salt)
deriveKeyFromCode(authenticationCode) == <<"key", authenticationCode>>

\* collectionName.compare("standalone", Qt::CaseInsensitive) == 0
IsReservedName(collectionName) == collectionName \in {"standalone", "Standalone"}

NoMeta ==
  [applicationId |-> "", usesDeviceLockKey |-> FALSE, storagePluginName |-> "",
   encryptionPluginName |-> "", unlockSemantic |-> "", accessControlMode |-> ""]

NoReply ==
  [requestId |-> 0, kind |-> "", collectionName |-> "", callerPid |-> "",
   sync |-> FALSE, result |-> Succeeded, hasSecret |-> FALSE, secret |-> "",
   pluginResult |-> Succeeded, cleanupResult |-> Succeeded, cleanupRan |-> FALSE,
   warnings |-> {}]

VARIABLES
  bkdbCollections,            \* bookkeeping Collections table: name -> row
  bkdbSecrets,                \* bookkeeping Secrets table: <<collection, hashed>> -> row
  pluginCollections,          \* per storage plugin: name -> [key, locked]
  pluginSecrets,              \* per storage plugin: <<collection, hashed>> -> [data, key]
  busy,                       \* the interleave guard's set of collection names
  m_collectionEncryptionKeys, \* name -> key
  m_collectionLockTimers,     \* name -> QTimer*
  timers,                     \* the QTimers that are started and have not fired
  m_pendingRequests,          \* requestId -> PendingRequest
  uiInteractions,             \* requestIds whose user input interaction is in progress
  jobs,                       \* requestId -> the QFuture/QFutureWatcher of the request
  nextRequestId,              \* the id the request queue gives the next request
  requestsLeft,               \* the requests the clients have still to send
  lastReply,                  \* the last Result returned or passed to requestFinished
  deviceLockKey,              \* m_requestQueue->deviceLockKey()
  m_standaloneSecretEncryptionKeys, \* hashed secret name -> key
  m_standaloneSecretLockTimers,     \* secret name -> QTimer*
  secretTimers,               \* the QTimers of standalone secrets that have not fired
  bkdbSealKey,                \* the key the bookkeeping database is locked under, NoKey when unlocked
  lockedPlugins,              \* the names of the plugins that are locked
  inFlightLimit               \* the requests the clients keep in flight at a time

vars ==
  <<bkdbCollections, bkdbSecrets, pluginCollections, pluginSecrets, busy,
    m_collectionEncryptionKeys, m_collectionLockTimers, timers, m_pendingRequests,
    uiInteractions, jobs, nextRequestId, requestsLeft, lastReply, deviceLockKey,
    m_standaloneSecretEncryptionKeys, m_standaloneSecretLockTimers, secretTimers,
    bkdbSealKey, lockedPlugins, inFlightLimit>>

\* m_requestQueue->deviceLockKey()
DeviceLockKey == deviceLockKey

bkdbVars == <<bkdbCollections, bkdbSecrets>>
pluginVars == <<pluginCollections, pluginSecrets>>
keyVars == <<m_collectionEncryptionKeys, m_collectionLockTimers, timers>>
standaloneVars ==
  <<m_standaloneSecretEncryptionKeys, m_standaloneSecretLockTimers, secretTimers>>
\* what the operations on collections leave alone
lockVars == <<bkdbSealKey, lockedPlugins>>
restVars == <<deviceLockKey, standaloneVars, lockVars, inFlightLimit>>

\* ---------------------------------------------------------------- helpers
Put(f, k, v) == [x \in DOMAIN f \cup {k} |-> IF x = k THEN v ELSE f[x]]
Drop(f, k) == [x \in DOMAIN f \ {k} |-> f[x]]

\* interleave guard (declared in secretsrequestprocessor_p.h)
interleavedRequestsAllowed(collectionName) == collectionName \notin busy
preventInterleavedRequests(collectionName) == busy \cup {collectionName}
allowInterleavedRequests(collectionName) == busy \ {collectionName}
interleavedRequestError == Error("InterleavedRequestError")

\* ------------------------------------------------- bookkeeping database
\* m_bkdb->collectionNames(names)
collectionNames == DOMAIN bkdbCollections
\* m_bkdb->collectionAlreadyExists(collectionName, &exists)
collectionAlreadyExists(collectionName) == collectionName \in DOMAIN bkdbCollections
\* an insert that reports success and writes no row
insertCollectionSkipped(collectionName, row) == bkdbCollections

\* m_bkdb->insertCollection(...)
insertCollection(collectionName, row) == Put(bkdbCollections, collectionName, row)
\* m_bkdb->deleteCollection(name) and cleanupDeleteCollection(name, originalResult):
\* the Secrets rows reference their collection and go with it
deleteCollectionRow(collectionName) == Drop(bkdbCollections, collectionName)
deleteCollectionSecretRows(collectionName) ==
  [k \in {x \in DOMAIN bkdbSecrets : x[1] # collectionName} |-> bkdbSecrets[k]]
\* m_bkdb->secretAlreadyExists(collectionName, hashedSecretName, &exists)
secretAlreadyExists(collectionName, hashedSecretName) ==
  <<collectionName, hashedSecretName>> \in DOMAIN bkdbSecrets
\* m_bkdb->insertSecret(...)
insertSecret(collectionName, hashedSecretName, row) ==
  Put(bkdbSecrets, <<collectionName, hashedSecretName>>, row)
\* m_bkdb->deleteSecret(...) and cleanupDeleteSecret(...)
deleteSecretRow(collectionName, hashedSecretName) ==
  Drop(bkdbSecrets, <<collectionName, hashedSecretName>>)
DatabaseError == Error("DatabaseError")

\* ------------------------------------------------- plugin function wrappers
\* Each wrapper runs on a worker thread against one storage plugin and gives
\* [result, collections, secrets, key, secret]: the Result, the plugin's new
\* contents, and the out-parameters.
PluginOut(result, collections, secrets, key, secret) ==
  [result |-> result, collections |-> collections, secrets |-> secrets,
   key |-> key, secret |-> secret]
PluginFail(p, e) == PluginOut(Error(e), pluginCollections[p], pluginSecrets[p], NoKey, "")

\* StoragePluginWrapper::createCollection / EncryptedStoragePluginWrapper::createCollection
createCollectionWrapper(p, collectionName, key) ==
  IF collectionName \in DOMAIN pluginCollections[p]
  THEN PluginFail(p, "CollectionAlreadyExistsError")
  ELSE PluginOut(Succeeded,
                 Put(pluginCollections[p], collectionName, [key |-> key, locked |-> FALSE]),
                 pluginSecrets[p], NoKey, "")

\* StoragePluginWrapper::removeCollection / EncryptedStoragePluginWrapper::removeCollection
removeCollectionWrapper(p, collectionName) ==
  IF collectionName \notin DOMAIN pluginCollections[p]
  THEN PluginFail(p, "InvalidCollectionError")
  ELSE PluginOut(Succeeded,
                 Drop(pluginCollections[p], collectionName),
                 [k \in {x \in DOMAIN pluginSecrets[p] : x[1] # collectionName}
                    |-> pluginSecrets[p][k]],
                 NoKey, "")

\* EncryptedStoragePluginWrapper::isCollectionLocked
isCollectionLocked(p, collectionName) ==
  IF collectionName \in DOMAIN pluginCollections[p]
  THEN [result |-> Succeeded, locked |-> pluginCollections[p][collectionName].locked]
  ELSE [result |-> Error("InvalidCollectionError"), locked |-> FALSE]

\* the "unlock the collection with this key if it is locked" step of the
\* EncryptedStoragePluginWrapper::unlockCollectionAnd... wrappers
UnlockFails(p, collectionName, key) ==
  /\ pluginCollections[p][collectionName].locked
  /\ pluginCollections[p][collectionName].key # key
Unlocked(p, collectionName) ==
  [pluginCollections[p] EXCEPT ![collectionName].locked = FALSE]

\* a store that writes the secret without its data
encryptAndStoreSecretEmpty(p, collectionName, hashedSecretName, data, key) ==
  IF collectionName \notin DOMAIN pluginCollections[p]
  THEN PluginFail(p, "InvalidCollectionError")
  ELSE PluginOut(Succeeded, pluginCollections[p],
                 Put(pluginSecrets[p], <<collectionName, hashedSecretName>>,
                     [data |-> "", key |-> key]),
                 NoKey, "")

\* StoragePluginWrapper::encryptAndStoreSecret
encryptAndStoreSecret(p, collectionName, hashedSecretName, data, key) ==
  IF collectionName \notin DOMAIN pluginCollections[p]
  THEN PluginFail(p, "InvalidCollectionError")
  ELSE PluginOut(Succeeded, pluginCollections[p],
                 Put(pluginSecrets[p], <<collectionName, hashedSecretName>>,
                     [data |-> data, key |-> key]),
                 NoKey, "")

\* EncryptedStoragePluginWrapper::unlockCollectionAndStoreSecret
unlockCollectionAndStoreSecret(p, collectionName, hashedSecretName, data, key) ==
  IF collectionName \notin DOMAIN pluginCollections[p]
  THEN PluginFail(p, "InvalidCollectionError")
  ELSE IF UnlockFails(p, collectionName, key)
  THEN PluginFail(p, "IncorrectAuthenticationCodeError")
  ELSE PluginOut(Succeeded, Unlocked(p, collectionName),
                 Put(pluginSecrets[p], <<collectionName, hashedSecretName>>,
                     [data |-> data, key |-> NoKey]),
                 NoKey, "")

\* StoragePluginWrapper::getAndDecryptSecret
getAndDecryptSecret(p, collectionName, hashedSecretName, key) ==
  IF <<collectionName, hashedSecretName>> \notin DOMAIN pluginSecrets[p]
  THEN PluginFail(p, "InvalidSecretError")
  ELSE IF pluginSecrets[p][<<collectionName, hashedSecretName>>].key # key
  THEN PluginFail(p, "IncorrectAuthenticationCodeError")
  ELSE PluginOut(Succeeded, pluginCollections[p], pluginSecrets[p], NoKey,
                 pluginSecrets[p][<<collectionName, hashedSecretName>>].data)

\* EncryptedStoragePluginWrapper::unlockCollectionAndReadSecret
unlockCollectionAndReadSecret(p, collectionName, hashedSecretName, key) ==
  IF collectionName \notin DOMAIN pluginCollections[p]
  THEN PluginFail(p, "InvalidCollectionError")
  ELSE IF UnlockFails(p, collectionName, key)
  THEN PluginFail(p, "IncorrectAuthenticationCodeError")
  ELSE IF <<collectionName, hashedSecretName>> \notin DOMAIN pluginSecrets[p]
  THEN PluginOut(Error("InvalidSecretError"), Unlocked(p, collectionName),
                 pluginSecrets[p], NoKey, "")
  ELSE PluginOut(Succeeded, Unlocked(p, collectionName), pluginSecrets[p], NoKey,
                 pluginSecrets[p][<<collectionName, hashedSecretName>>].data)

\* StoragePluginWrapper::removeSecret
removeSecret(p, collectionName, hashedSecretName) ==
  IF <<collectionName, hashedSecretName>> \notin DOMAIN pluginSecrets[p]
  THEN PluginFail(p, "InvalidSecretError")
  ELSE PluginOut(Succeeded, pluginCollections[p],
                 Drop(pluginSecrets[p], <<collectionName, hashedSecretName>>), NoKey, "")

\* EncryptedStoragePluginWrapper::unlockCollectionAndRemoveSecret
unlockCollectionAndRemoveSecret(p, collectionName, hashedSecretName, key) ==
  IF collectionName \notin DOMAIN pluginCollections[p]
  THEN PluginFail(p, "InvalidCollectionError")
  ELSE IF UnlockFails(p, collectionName, key)
  THEN PluginFail(p, "IncorrectAuthenticationCodeError")
  ELSE IF <<collectionName, hashedSecretName>> \notin DOMAIN pluginSecrets[p]
  THEN PluginOut(Error("InvalidSecretError"), Unlocked(p, collectionName),
                 pluginSecrets[p], NoKey, "")
  ELSE PluginOut(Succeeded, Unlocked(p, collectionName),
                 Drop(pluginSecrets[p], <<collectionName, hashedSecretName>>), NoKey, "")

\* EncryptionPluginWrapper::deriveKeyFromCode / EncryptedStoragePluginWrapper::deriveKeyFromCode
deriveKeyFromCodeWrapper(p, authenticationCode) ==
  PluginOut(Succeeded, pluginCollections[p], pluginSecrets[p],
            deriveKeyFromCode(authenticationCode), "")

\* EncryptedStoragePluginWrapper::accessSecret
accessSecret(p, collectionName, hashedSecretName, key) ==
  IF <<collectionName, hashedSecretName>> \notin DOMAIN pluginSecrets[p]
  THEN PluginFail(p, "InvalidSecretError")
  ELSE IF pluginSecrets[p][<<collectionName, hashedSecretName>>].key # key
  THEN PluginFail(p, "IncorrectAuthenticationCodeError")
  ELSE PluginOut(Succeeded, pluginCollections[p], pluginSecrets[p], NoKey,
                 pluginSecrets[p][<<collectionName, hashedSecretName>>].data)


\* StoragePluginWrapper::findAndDecryptSecretNames: the names are read, nothing is written
findAndDecryptSecretNames(p, collectionName, key) ==
  IF collectionName \notin DOMAIN pluginCollections[p]
  THEN PluginFail(p, "InvalidCollectionError")
  ELSE PluginOut(Succeeded, pluginCollections[p], pluginSecrets[p], NoKey, "")

\* EncryptedStoragePluginWrapper::unlockAndFindSecrets
unlockAndFindSecrets(p, collectionName, key) ==
  IF collectionName \notin DOMAIN pluginCollections[p]
  THEN PluginFail(p, "InvalidCollectionError")
  ELSE IF UnlockFails(p, collectionName, key)
  THEN PluginFail(p, "IncorrectAuthenticationCodeError")
  ELSE PluginOut(Succeeded, Unlocked(p, collectionName), pluginSecrets[p], NoKey, "")


\* ------------------------------------------------- requests in flight
UserInteractionModes == {"PreventInteraction", "SystemInteraction"}
AccessControlModes == {"OwnerOnlyMode", "NoAccessControlMode"}
PluginPairs == {<<"store", "enc">>, <<"encstore", "encstore">>}
CustomLockUnlockSemantics == {"CustomLockKeepUnlocked", "CustomLockTimoutRelock"}
Faults == {"none", "read", "write", "ui"}

Meta(owner, usesDeviceLockKey, storagePluginName, encryptionPluginName, unlockSemantic, accessControlMode) ==
  [applicationId |-> owner, usesDeviceLockKey |-> usesDeviceLockKey,
   storagePluginName |-> storagePluginName, encryptionPluginName |-> encryptionPluginName,
   unlockSemantic |-> unlockSemantic, accessControlMode |-> accessControlMode]

\* what a QtConcurrent::run call and the lambda connected to its watcher capture
Job(kind, fn, callerPid, collectionName, secretName, data, uim, meta, key, exists) ==
  [kind |-> kind, fn |-> fn, callerPid |-> callerPid, collectionName |-> collectionName,
   secretName |-> secretName, data |-> data, userInteractionMode |-> uim, meta |-> meta,
   key |-> key, secretAlreadyExists |-> exists,
   ran |-> FALSE, result |-> Pending, outKey |-> NoKey, secret |-> ""]

\* RequestProcessor::PendingRequest(callerPid, requestId, requestType, parameters)
PendingRequest(requestType, callerPid, collectionName, secretName, data, uim, meta) ==
  [requestType |-> requestType, callerPid |-> callerPid, collectionName |-> collectionName,
   secretName |-> secretName, data |-> data, userInteractionMode |-> uim, meta |-> meta]

\* a Result other than Pending returned by the API call itself
Return(requestId, kind, callerPid, collectionName, result) ==
  [NoReply EXCEPT !.requestId = requestId, !.kind = kind, !.callerPid = callerPid,
                  !.collectionName = collectionName, !.sync = TRUE, !.result = result]
\* m_requestQueue->requestFinished(requestId, outParams)
Finished(requestId, kind, callerPid, collectionName, result) ==
  [NoReply EXCEPT !.requestId = requestId, !.kind = kind, !.callerPid = callerPid,
                  !.collectionName = collectionName, !.sync = FALSE, !.result = result]

\* the requests that are at a prompt or in the worker pool
InFlight == uiInteractions \cup DOMAIN jobs
CanCall(fault) ==
  /\ requestsLeft > 0
  /\ Cardinality(InFlight) < inFlightLimit

\* the plugin-name checks that open the create calls (lines 125-134)
CreatePluginsResult(storagePluginName, encryptionPluginName) ==
  IF storagePluginName = encryptionPluginName
       /\ storagePluginName \notin m_encryptedStoragePlugins
  THEN Error("InvalidExtensionPluginError")
  ELSE IF storagePluginName # encryptionPluginName
            /\ storagePluginName \notin m_storagePlugins
  THEN Error("InvalidExtensionPluginError")
  ELSE IF storagePluginName # encryptionPluginName
            /\ encryptionPluginName \notin m_encryptionPlugins
  THEN Error("InvalidExtensionPluginError")
  ELSE Succeeded

\* ------------------------------------------------- initial state
PersistedSecretKey == deriveKeyFromCode("pw")
\* the rows and plugin objects an earlier run of the daemon left behind
PersistedMetas ==
  { Meta("appA", FALSE, pp[1], pp[2], "CustomLockTimoutRelock", "OwnerOnlyMode") :
      pp \in PluginPairs }
Persisted(meta) ==
  LET c == "c1"
      h == generateHashedSecretName("c1", "s1")
      fused == meta.storagePluginName = meta.encryptionPluginName
      p == meta.storagePluginName
  IN [collections |-> (c :> meta),
      secrets |-> (<<c, h>> :> meta),
      pluginCollections |->
        [q \in StoragePluginNames |->
           IF q = p
           THEN (c :> [key |-> IF fused THEN PersistedSecretKey ELSE NoKey, locked |-> fused])
           ELSE <<>>],
      pluginSecrets |->
        [q \in StoragePluginNames |->
           IF q = p
           THEN (<<c, h>> :> [data |-> "d1", key |-> IF fused THEN NoKey ELSE PersistedSecretKey])
           ELSE <<>>]]
Empty ==
  [collections |-> <<>>, secrets |-> <<>>,
   pluginCollections |-> [q \in StoragePluginNames |-> <<>>],
   pluginSecrets |-> [q \in StoragePluginNames |-> <<>>]]

\* the processor after construction over one of the persisted states: nothing is
\* in memory and no request has arrived
Constructed(states) ==
  /\ \E st \in states :
       /\ bkdbCollections = st.collections
       /\ bkdbSecrets = st.secrets
       /\ pluginCollections = st.pluginCollections
       /\ pluginSecrets = st.pluginSecrets
  /\ busy = {}
  /\ m_collectionEncryptionKeys = <<>>
  /\ m_collectionLockTimers = <<>>
  /\ timers = {}
  /\ m_pendingRequests = <<>>
  /\ uiInteractions = {}
  /\ jobs = <<>>
  /\ nextRequestId = 1
  /\ lastReply = NoReply
  /\ deviceLockKey = InitialDeviceLockKey
  /\ m_standaloneSecretEncryptionKeys = <<>>
  /\ m_standaloneSecretLockTimers = <<>>
  /\ secretTimers = {}
  /\ bkdbSealKey = NoKey
  /\ lockedPlugins = {}

Init ==
  /\ Constructed({Empty} \cup {Persisted(m) : m \in PersistedMetas})
  /\ requestsLeft = MaxRequests
  /\ inFlightLimit = MaxInFlight

\* ------------------------------------------------- createDeviceLockCollection
createDeviceLockCollectionResult(collectionName, storagePluginName, encryptionPluginName, fault) ==
  IF IsReservedName(collectionName) THEN Error("InvalidCollectionError")
  ELSE IF CreatePluginsResult(storagePluginName, encryptionPluginName) # Succeeded
  THEN CreatePluginsResult(storagePluginName, encryptionPluginName)
  ELSE IF fault = "read" THEN DatabaseError
  ELSE IF collectionAlreadyExists(collectionName) THEN Error("CollectionAlreadyExistsError")
  ELSE IF ~interleavedRequestsAllowed(collectionName) THEN interleavedRequestError
  ELSE IF fault = "write" THEN DatabaseError
  ELSE Pending

\* the call got as far as preventInterleavedRequests(collectionName)
createReachedGuard(collectionName, storagePluginName, encryptionPluginName, fault) ==
  /\ ~IsReservedName(collectionName)
  /\ CreatePluginsResult(storagePluginName, encryptionPluginName) = Succeeded
  /\ fault # "read"
  /\ ~collectionAlreadyExists(collectionName)
  /\ interleavedRequestsAllowed(collectionName)

createDeviceLockCollection(callerPid, collectionName, storagePluginName, encryptionPluginName, unlockSemantic, accessControlMode, fault) ==
  /\ CanCall(fault)
  /\ LET requestId == nextRequestId
         callerApplicationId == applicationId(callerPid)
         meta == Meta(callerApplicationId, TRUE, storagePluginName, encryptionPluginName,
                      unlockSemantic, accessControlMode)
         result == createDeviceLockCollectionResult(collectionName, storagePluginName,
                                                    encryptionPluginName, fault)
     IN /\ nextRequestId' = requestId + 1
        /\ requestsLeft' = requestsLeft - 1
        /\ busy' = IF createReachedGuard(collectionName, storagePluginName, encryptionPluginName, fault)
                   THEN preventInterleavedRequests(collectionName) ELSE busy
        /\ bkdbCollections' = IF result = Pending
                              THEN insertCollection(collectionName, meta) ELSE bkdbCollections
        /\ jobs' = IF result = Pending
                   THEN Put(jobs, requestId,
                            Job("createDeviceLockCollection", "createCollection", callerPid,
                                collectionName, "", "", "", meta, DeviceLockKey, FALSE))
                   ELSE jobs
        /\ lastReply' = IF result = Pending THEN lastReply
                        ELSE Return(requestId, "createDeviceLockCollection", callerPid,
                                    collectionName, result)
        /\ UNCHANGED <<bkdbSecrets, pluginVars, keyVars, m_pendingRequests, uiInteractions>>
  /\ UNCHANGED restVars

\* a create lambda that never takes the cleanup branch
createCollectionFailedNever(pluginResult) == FALSE

\* the test that opens the cleanup branch of the create lambdas (line 209)
createCollectionFailed(pluginResult) == pluginResult.code # "Succeeded"

\* a cleanup whose own failure is dropped
cleanupOutcomeKeepsPluginResult(pluginResult, cleanupResult) == pluginResult

\* the Result a lambda reports after its cleanup ran (lines 213-216)
cleanupOutcome(pluginResult, cleanupResult) ==
  IF cleanupResult.code # "Succeeded" THEN cleanupResult ELSE pluginResult

\* the lambda connected to the watcher of createDeviceLockCollection (lines 206-233)
createDeviceLockCollectionFinished(requestId, fault) ==
  /\ requestId \in DOMAIN jobs
  /\ jobs[requestId].kind = "createDeviceLockCollection"
  /\ jobs[requestId].ran
  /\ fault \in {"none", "write"}
  /\ fault # "none" => (jobs[requestId].result.code # "Succeeded")
  /\ LET j == jobs[requestId]
         collectionName == j.collectionName
         failed == createCollectionFailed(j.result)
         cleanupResult == IF fault = "write" THEN DatabaseError ELSE Succeeded
         pluginResult == IF failed THEN cleanupOutcome(j.result, cleanupResult) ELSE j.result
     IN /\ bkdbCollections' = IF failed /\ fault = "none"
                              THEN deleteCollectionRow(collectionName) ELSE bkdbCollections
        /\ bkdbSecrets' = IF failed /\ fault = "none"
                          THEN deleteCollectionSecretRows(collectionName) ELSE bkdbSecrets
        /\ m_collectionEncryptionKeys' =
             IF ~failed /\ j.meta.storagePluginName # j.meta.encryptionPluginName
             THEN Put(m_collectionEncryptionKeys, collectionName, DeviceLockKey)
             ELSE m_collectionEncryptionKeys
        /\ busy' = allowInterleavedRequests(collectionName)
        /\ jobs' = Drop(jobs, requestId)
        /\ lastReply' = [Finished(requestId, j.kind, j.callerPid, collectionName, pluginResult)
                           EXCEPT !.pluginResult = j.result, !.cleanupRan = failed,
                                  !.cleanupResult = cleanupResult]
        /\ UNCHANGED <<pluginVars, m_collectionLockTimers, timers, m_pendingRequests,
                       uiInteractions, nextRequestId, requestsLeft>>
  /\ UNCHANGED restVars

\* ------------------------------------------------- createCustomLockCollection
createCustomLockCollectionResult(collectionName, storagePluginName, encryptionPluginName, authenticationPluginName, userInteractionMode, fault) ==
  IF IsReservedName(collectionName) THEN Error("InvalidCollectionError")
  ELSE IF CreatePluginsResult(storagePluginName, encryptionPluginName) # Succeeded
  THEN CreatePluginsResult(storagePluginName, encryptionPluginName)
  ELSE IF authenticationPluginName \notin m_authenticationPlugins
  THEN Error("InvalidExtensionPluginError")
  ELSE IF userInteractionMode = "PreventInteraction"
  THEN Error("OperationRequiresUserInteraction")
  ELSE IF fault = "read" THEN DatabaseError
  ELSE IF collectionAlreadyExists(collectionName) THEN Error("CollectionAlreadyExistsError")
  ELSE IF fault = "ui" THEN Error("InteractionError")
  ELSE Pending

createCustomLockCollection(callerPid, collectionName, storagePluginName, encryptionPluginName, authenticationPluginName, unlockSemantic, accessControlMode, userInteractionMode, fault) ==
  /\ CanCall(fault)
  /\ LET requestId == nextRequestId
         result == createCustomLockCollectionResult(collectionName, storagePluginName,
                     encryptionPluginName, authenticationPluginName, userInteractionMode, fault)
         meta == Meta("", FALSE, storagePluginName, encryptionPluginName,
                      unlockSemantic, accessControlMode)
     IN /\ nextRequestId' = requestId + 1
        /\ requestsLeft' = requestsLeft - 1
        /\ uiInteractions' = IF result = Pending THEN uiInteractions \cup {requestId}
                             ELSE uiInteractions
        /\ m_pendingRequests' =
             IF result = Pending
             THEN Put(m_pendingRequests, requestId,
                      PendingRequest("CreateCustomLockCollectionRequest", callerPid,
                                     collectionName, "", "", userInteractionMode, meta))
             ELSE m_pendingRequests
        /\ lastReply' = IF result = Pending THEN lastReply
                        ELSE Return(requestId, "createCustomLockCollection", callerPid,
                                    collectionName, result)
        /\ UNCHANGED <<bkdbVars, pluginVars, busy, keyVars, jobs>>
  /\ UNCHANGED restVars

\* createCustomLockCollectionWithAuthenticationCode (lines 331-449), called by
\* userInputInteractionCompleted with the parameters of the pending request
createCustomLockCollectionWithAuthenticationCodeResult(collectionName, fault) ==
  IF fault = "read" THEN DatabaseError
  ELSE IF collectionAlreadyExists(collectionName) THEN Error("CollectionAlreadyExistsError")
  ELSE IF ~interleavedRequestsAllowed(collectionName) THEN interleavedRequestError
  ELSE IF fault = "write" THEN DatabaseError
  ELSE Pending

createCustomLockCollectionWithAuthenticationCode(requestId, pr, authenticationCode, fault) ==
  LET collectionName == pr.collectionName
      callerApplicationId == applicationId(pr.callerPid)
      meta == [pr.meta EXCEPT !.applicationId = callerApplicationId]
      result == createCustomLockCollectionWithAuthenticationCodeResult(collectionName, fault)
      reachedGuard == /\ fault # "read"
                      /\ ~collectionAlreadyExists(collectionName)
                      /\ interleavedRequestsAllowed(collectionName)
  IN /\ busy' = IF reachedGuard THEN preventInterleavedRequests(collectionName) ELSE busy
     /\ bkdbCollections' = IF result = Pending
                           THEN insertCollection(collectionName, meta) ELSE bkdbCollections
     /\ jobs' = IF result = Pending
                THEN Put(jobs, requestId,
                         Job("createCustomLockCollection", "deriveKeyFromCode", pr.callerPid,
                             collectionName, "", "", pr.userInteractionMode, meta,
                             authenticationCode, FALSE))
                ELSE jobs
     /\ m_pendingRequests' = Drop(m_pendingRequests, requestId)
     /\ uiInteractions' = uiInteractions \ {requestId}
     /\ lastReply' = IF result = Pending THEN lastReply
                     ELSE Finished(requestId, "createCustomLockCollection", pr.callerPid,
                                   collectionName, result)
     /\ UNCHANGED <<bkdbSecrets, pluginVars, keyVars>>

\* the lambda connected to the deriveKeyFromCode watcher (lines 423-446); on
\* success it runs createCustomLockCollectionWithEncryptionKey (lines 452-519)
\* up to its QtConcurrent::run
createCustomLockCollectionKeyDerived(requestId) ==
  /\ requestId \in DOMAIN jobs
  /\ jobs[requestId].kind = "createCustomLockCollection"
  /\ jobs[requestId].fn = "deriveKeyFromCode"
  /\ jobs[requestId].ran
  /\ LET j == jobs[requestId]
     IN IF j.result.code # "Succeeded"
        THEN /\ busy' = allowInterleavedRequests(j.collectionName)
             /\ jobs' = Drop(jobs, requestId)
             /\ lastReply' = Finished(requestId, j.kind, j.callerPid, j.collectionName, j.result)
        ELSE /\ busy' = busy
             /\ jobs' = Put(jobs, requestId,
                            Job(j.kind, "createCollection", j.callerPid, j.collectionName,
                                "", "", j.userInteractionMode, j.meta, j.outKey, FALSE))
             /\ lastReply' = lastReply
  /\ UNCHANGED <<bkdbVars, pluginVars, keyVars, m_pendingRequests, uiInteractions,
                 nextRequestId, requestsLeft>>
  /\ UNCHANGED restVars

\* the lambda connected to the createCollection watcher (lines 491-518)
createCustomLockCollectionFinished(requestId, fault) ==
  /\ requestId \in DOMAIN jobs
  /\ jobs[requestId].kind = "createCustomLockCollection"
  /\ jobs[requestId].fn = "createCollection"
  /\ jobs[requestId].ran
  /\ fault \in {"none", "write"}
  /\ fault # "none" => (jobs[requestId].result.code # "Succeeded")
  /\ LET j == jobs[requestId]
         collectionName == j.collectionName
         failed == createCollectionFailed(j.result)
         cleanupResult == IF fault = "write" THEN DatabaseError ELSE Succeeded
         pluginResult == IF failed THEN cleanupOutcome(j.result, cleanupResult) ELSE j.result
     IN /\ bkdbCollections' = IF failed /\ fault = "none"
                              THEN deleteCollectionRow(collectionName) ELSE bkdbCollections
        /\ bkdbSecrets' = IF failed /\ fault = "none"
                          THEN deleteCollectionSecretRows(collectionName) ELSE bkdbSecrets
        /\ m_collectionEncryptionKeys' =
             IF ~failed /\ j.meta.storagePluginName # j.meta.encryptionPluginName
             THEN Put(m_collectionEncryptionKeys, collectionName, j.key)
             ELSE m_collectionEncryptionKeys
        /\ busy' = allowInterleavedRequests(collectionName)
        /\ jobs' = Drop(jobs, requestId)
        /\ lastReply' = [Finished(requestId, j.kind, j.callerPid, collectionName, pluginResult)
                           EXCEPT !.pluginResult = j.result, !.cleanupRan = failed,
                                  !.cleanupResult = cleanupResult]
        /\ UNCHANGED <<pluginVars, m_collectionLockTimers, timers, m_pendingRequests,
                       uiInteractions, nextRequestId, requestsLeft>>
  /\ UNCHANGED restVars

\* ------------------------------------------------- deleteCollection
\* the plugin checks on a collection row read back from the bookkeeping database
StoredPluginsResult(meta) ==
  IF meta.storagePluginName = meta.encryptionPluginName
       /\ meta.storagePluginName \notin m_encryptedStoragePlugins
  THEN Error("InvalidExtensionPluginError")
  ELSE IF meta.storagePluginName # meta.encryptionPluginName
            /\ (meta.storagePluginName = "" \/ meta.storagePluginName \notin m_storagePlugins)
  THEN Error("InvalidExtensionPluginError")
  ELSE IF meta.storagePluginName # meta.encryptionPluginName
            /\ (meta.encryptionPluginName = ""
                \/ meta.encryptionPluginName \notin m_encryptionPlugins)
  THEN Error("InvalidExtensionPluginError")
  ELSE Succeeded

\* access control that lets every application into an OwnerOnly collection
AccessControlResultOwnerUnchecked(meta, callerApplicationId) ==
  IF meta.accessControlMode = "SystemAccessControlMode"
  THEN Error("OperationNotSupportedError")
  ELSE Succeeded

\* the access control checks on a collection row (lines 580-587)
AccessControlResult(meta, callerApplicationId) ==
  IF meta.accessControlMode = "SystemAccessControlMode"
  THEN Error("OperationNotSupportedError")
  ELSE IF meta.accessControlMode = "OwnerOnlyMode" /\ meta.applicationId # callerApplicationId
  THEN Error("PermissionsError")
  ELSE Succeeded

\* a delete that reports a missing row as an error
deleteCollectionResultMissingIsError(callerPid, collectionName, fault) ==
  IF IsReservedName(collectionName) \/ collectionName = ""
  THEN Error("InvalidCollectionError")
  ELSE IF fault = "read" THEN DatabaseError
  ELSE IF ~collectionAlreadyExists(collectionName) THEN Error("InvalidCollectionError")
  ELSE IF AccessControlResult(bkdbCollections[collectionName], applicationId(callerPid)) # Succeeded
  THEN AccessControlResult(bkdbCollections[collectionName], applicationId(callerPid))
  ELSE IF StoredPluginsResult(bkdbCollections[collectionName]) # Succeeded
  THEN StoredPluginsResult(bkdbCollections[collectionName])
  ELSE Pending

\* the Result of deleteCollection (lines 523-601), Pending when it goes on to the plugin
deleteCollectionResult(callerPid, collectionName, fault) ==
  IF IsReservedName(collectionName) \/ collectionName = ""
  THEN Error("InvalidCollectionError")
  ELSE IF fault = "read" THEN DatabaseError
  ELSE IF ~collectionAlreadyExists(collectionName) THEN Succeeded
  ELSE IF AccessControlResult(bkdbCollections[collectionName], applicationId(callerPid)) # Succeeded
  THEN AccessControlResult(bkdbCollections[collectionName], applicationId(callerPid))
  ELSE IF StoredPluginsResult(bkdbCollections[collectionName]) # Succeeded
  THEN StoredPluginsResult(bkdbCollections[collectionName])
  ELSE Pending

deleteCollection(callerPid, collectionName, userInteractionMode, fault) ==
  /\ CanCall(fault)
  /\ LET requestId == nextRequestId
         result == deleteCollectionResult(callerPid, collectionName, fault)
     IN /\ nextRequestId' = requestId + 1
        /\ requestsLeft' = requestsLeft - 1
        /\ busy' = IF result = Pending THEN preventInterleavedRequests(collectionName) ELSE busy
        /\ jobs' = IF result = Pending
                   THEN Put(jobs, requestId,
                            Job("deleteCollection", "removeCollection", callerPid, collectionName,
                                "", "", userInteractionMode, bkdbCollections[collectionName],
                                NoKey, FALSE))
                   ELSE jobs
        /\ lastReply' = IF result = Pending THEN lastReply
                        ELSE Return(requestId, "deleteCollection", callerPid, collectionName, result)
        /\ UNCHANGED <<bkdbVars, pluginVars, keyVars, m_pendingRequests, uiInteractions>>
  /\ UNCHANGED restVars

\* a finalise that leaves the collection's key in the cache
deleteCollectionFinaliseKeepsKey(collectionName) == m_collectionEncryptionKeys

\* deleteCollectionFinalise forgets the collection's key (line 651)
deleteCollectionFinaliseKey(collectionName) == Drop(m_collectionEncryptionKeys, collectionName)

\* a lambda that takes every plugin Result for a success
deleteCollectionPluginFailedNever(pluginResult) == FALSE

\* the test that keeps the lambda off deleteCollectionFinalise (line 628)
deleteCollectionPluginFailed(pluginResult) == pluginResult.code = "Failed"

\* the lambda connected to the removeCollection watcher (lines 624-637), with
\* deleteCollectionFinalise (lines 643-671) on the path where the plugin did not fail
deleteCollectionFinished(requestId, fault) ==
  /\ requestId \in DOMAIN jobs
  /\ jobs[requestId].kind = "deleteCollection"
  /\ jobs[requestId].ran
  /\ fault \in {"none", "write"}
  /\ fault # "none" => (jobs[requestId].result.code # "Failed")
  /\ LET j == jobs[requestId]
         collectionName == j.collectionName
         pluginFailed == deleteCollectionPluginFailed(j.result)
         deleteResult == IF fault = "write" THEN DatabaseError ELSE Succeeded
     IN /\ busy' = allowInterleavedRequests(collectionName)
        /\ m_collectionEncryptionKeys' =
             IF pluginFailed THEN m_collectionEncryptionKeys
             ELSE deleteCollectionFinaliseKey(collectionName)
        /\ m_collectionLockTimers' =
             IF pluginFailed THEN m_collectionLockTimers
             ELSE Drop(m_collectionLockTimers, collectionName)
        /\ bkdbCollections' = IF pluginFailed \/ fault = "write" THEN bkdbCollections
                              ELSE deleteCollectionRow(collectionName)
        /\ bkdbSecrets' = IF pluginFailed \/ fault = "write" THEN bkdbSecrets
                          ELSE deleteCollectionSecretRows(collectionName)
        /\ jobs' = Drop(jobs, requestId)
        /\ lastReply' = [Finished(requestId, j.kind, j.callerPid, collectionName,
                                  IF pluginFailed THEN j.result ELSE deleteResult)
                           EXCEPT !.pluginResult = j.result]
        /\ UNCHANGED <<pluginVars, timers, m_pendingRequests, uiInteractions, nextRequestId, requestsLeft>>
  /\ UNCHANGED restVars

\* ------------------------------------------------- setCollectionSecret
\* the name checks that open the per-secret calls (lines 915-924)
IdentifierResult(collectionName, secretName) ==
  IF secretName = "" THEN Error("InvalidSecretError")
  ELSE IF collectionName = "" THEN Error("InvalidCollectionError")
  ELSE IF IsReservedName(collectionName) THEN Error("InvalidCollectionError")
  ELSE Succeeded

\* the collection is one whose working key is at hand: the encrypted storage
\* plugin reports it unlocked, or m_collectionEncryptionKeys holds its key
KeyAtHand(collectionName, meta) ==
  IF meta.storagePluginName = meta.encryptionPluginName
  THEN ~isCollectionLocked(meta.storagePluginName, collectionName).locked
  ELSE collectionName \in DOMAIN m_collectionEncryptionKeys

\* setCollectionSecretWithEncryptionKey (lines 1304-1394), up to its QtConcurrent::run
setCollectionSecretWithEncryptionKey(requestId, callerPid, collectionName, secretName, data, uim, meta, encryptionKey, fault) ==
  LET hashedSecretName == generateHashedSecretName(collectionName, secretName)
      exists == secretAlreadyExists(collectionName, hashedSecretName)
      failed == fault = "read" \/ (fault = "write" /\ ~exists)
  IN /\ bkdbSecrets' = IF ~failed /\ ~exists
                       THEN insertSecret(collectionName, hashedSecretName, meta)
                       ELSE bkdbSecrets
     /\ m_collectionEncryptionKeys' =
          IF /\ ~failed
             /\ meta.storagePluginName # meta.encryptionPluginName
             /\ collectionName \notin DOMAIN m_collectionEncryptionKeys
          THEN Put(m_collectionEncryptionKeys, collectionName, encryptionKey)
          ELSE m_collectionEncryptionKeys
     /\ jobs' = IF failed THEN Drop(jobs, requestId)
                ELSE Put(jobs, requestId,
                         Job("setCollectionSecret", "storeSecret", callerPid, collectionName,
                             secretName, data, uim, meta, encryptionKey, exists))
     /\ lastReply' = IF failed
                     THEN Finished(requestId, "setCollectionSecret", callerPid, collectionName,
                                   DatabaseError)
                     ELSE lastReply

\* a key decision that prompts whatever the caller's interaction mode
setCollectionSecretGetAuthenticationCodeResultPrompting(collectionName, meta, userInteractionMode, fault) ==
  IF meta.storagePluginName = meta.encryptionPluginName
       /\ isCollectionLocked(meta.storagePluginName, collectionName).result # Succeeded
  THEN isCollectionLocked(meta.storagePluginName, collectionName).result
  ELSE IF KeyAtHand(collectionName, meta) THEN Pending
  ELSE IF meta.usesDeviceLockKey THEN Error("CollectionIsLockedError")
  ELSE IF fault = "ui" THEN Error("InteractionError")
  ELSE Pending

\* the Result of setCollectionSecretGetAuthenticationCode (lines 1057-1229)
setCollectionSecretGetAuthenticationCodeResult(collectionName, meta, userInteractionMode, fault) ==
  IF meta.storagePluginName = meta.encryptionPluginName
       /\ isCollectionLocked(meta.storagePluginName, collectionName).result # Succeeded
  THEN isCollectionLocked(meta.storagePluginName, collectionName).result
  ELSE IF KeyAtHand(collectionName, meta) THEN Pending
  ELSE IF meta.usesDeviceLockKey THEN Error("CollectionIsLockedError")
  ELSE IF userInteractionMode = "PreventInteraction"
  THEN Error("OperationRequiresUserInteraction")
  ELSE IF fault = "ui" THEN Error("InteractionError")
  ELSE Pending

\* setCollectionSecretGetAuthenticationCode: store with the key at hand, or
\* prompt for the passphrase and leave a SetCollectionSecretRequest behind
setCollectionSecretGetAuthenticationCode(requestId, callerPid, collectionName, secretName, data, uim, meta, fault, sync) ==
  LET result == setCollectionSecretGetAuthenticationCodeResult(collectionName, meta, uim, fault)
      fused == meta.storagePluginName = meta.encryptionPluginName
  IN IF result = Pending /\ KeyAtHand(collectionName, meta)
     THEN /\ setCollectionSecretWithEncryptionKey(requestId, callerPid, collectionName,
                secretName, data, uim, meta,
                IF fused THEN NoKey ELSE m_collectionEncryptionKeys[collectionName], fault)
          /\ m_pendingRequests' = Drop(m_pendingRequests, requestId)
          /\ uiInteractions' = uiInteractions \ {requestId}
     ELSE /\ m_pendingRequests' =
               IF result = Pending
               THEN Put(m_pendingRequests, requestId,
                        PendingRequest("SetCollectionSecretRequest", callerPid, collectionName,
                                       secretName, data, uim, meta))
               ELSE Drop(m_pendingRequests, requestId)
          /\ uiInteractions' = IF result = Pending THEN uiInteractions \cup {requestId}
                               ELSE uiInteractions \ {requestId}
          /\ lastReply' = IF result = Pending THEN lastReply
                          ELSE [Finished(requestId, "setCollectionSecret", callerPid,
                                         collectionName, result) EXCEPT !.sync = sync]
          /\ UNCHANGED <<bkdbSecrets, m_collectionEncryptionKeys, jobs>>

setCollectionSecretResult(callerPid, collectionName, secretName, fault) ==
  IF IdentifierResult(collectionName, secretName) # Succeeded
  THEN IdentifierResult(collectionName, secretName)
  ELSE IF fault = "read" THEN DatabaseError
  ELSE IF ~collectionAlreadyExists(collectionName) THEN Error("InvalidCollectionError")
  ELSE IF AccessControlResult(bkdbCollections[collectionName], applicationId(callerPid)) # Succeeded
  THEN AccessControlResult(bkdbCollections[collectionName], applicationId(callerPid))
  ELSE IF StoredPluginsResult(bkdbCollections[collectionName]) # Succeeded
  THEN StoredPluginsResult(bkdbCollections[collectionName])
  ELSE Pending

\* setCollectionSecret (lines 907-1054); uiParamsValid: the secret's data is
\* to be asked of the user
setCollectionSecret(callerPid, collectionName, secretName, data, uiParamsValid, userInteractionMode, fault) ==
  /\ CanCall(fault)
  /\ LET requestId == nextRequestId
         result == setCollectionSecretResult(callerPid, collectionName, secretName, fault)
         valid == result = Pending
         meta == bkdbCollections[collectionName]
     IN /\ nextRequestId' = requestId + 1
        /\ requestsLeft' = requestsLeft - 1
        /\ IF ~valid
           THEN /\ lastReply' = Return(requestId, "setCollectionSecret", callerPid,
                                       collectionName, result)
                /\ UNCHANGED <<bkdbSecrets, m_collectionEncryptionKeys, jobs,
                               m_pendingRequests, uiInteractions>>
           ELSE IF ~uiParamsValid
           THEN setCollectionSecretGetAuthenticationCode(requestId, callerPid, collectionName,
                    secretName, data, userInteractionMode, meta,
                    IF fault = "read" THEN "none" ELSE fault, TRUE)
           ELSE /\ m_pendingRequests' =
                     IF fault = "ui" THEN m_pendingRequests
                     ELSE Put(m_pendingRequests, requestId,
                              PendingRequest("SetCollectionUserInputSecretRequest", callerPid,
                                             collectionName, secretName, "", userInteractionMode,
                                             meta))
                /\ uiInteractions' = IF fault = "ui" THEN uiInteractions
                                     ELSE uiInteractions \cup {requestId}
                /\ lastReply' = IF fault = "ui"
                                THEN Return(requestId, "setCollectionSecret", callerPid,
                                            collectionName, Error("InteractionError"))
                                ELSE lastReply
                /\ UNCHANGED <<bkdbSecrets, m_collectionEncryptionKeys, jobs>>
        /\ UNCHANGED <<bkdbCollections, pluginVars, busy, m_collectionLockTimers, timers>>
  /\ UNCHANGED restVars

\* setCollectionSecretWithAuthenticationCode (lines 1232-1301), called by
\* userInputInteractionCompleted
setCollectionSecretWithAuthenticationCode(requestId, pr, authenticationCode) ==
  LET result == IF pr.meta.storagePluginName = pr.meta.encryptionPluginName
                THEN IF pr.meta.storagePluginName \notin m_encryptedStoragePlugins
                     THEN Error("InvalidExtensionPluginError") ELSE Pending
                ELSE IF pr.meta.encryptionPluginName \notin m_encryptionPlugins
                     THEN Error("InvalidExtensionPluginError") ELSE Pending
  IN /\ jobs' = IF result = Pending
                THEN Put(jobs, requestId,
                         Job("setCollectionSecret", "deriveKeyFromCode", pr.callerPid,
                             pr.collectionName, pr.secretName, pr.data,
                             pr.userInteractionMode, pr.meta, authenticationCode, FALSE))
                ELSE jobs
     /\ m_pendingRequests' = Drop(m_pendingRequests, requestId)
     /\ uiInteractions' = uiInteractions \ {requestId}
     /\ lastReply' = IF result = Pending THEN lastReply
                     ELSE Finished(requestId, "setCollectionSecret", pr.callerPid,
                                   pr.collectionName, result)
     /\ UNCHANGED <<bkdbVars, busy, m_collectionEncryptionKeys>>

\* the lambda connected to the deriveKeyFromCode watcher (lines 1281-1298); no
\* behaviour takes it, since userInputInteractionCompleted never starts its job
setCollectionSecretKeyDerived(requestId, fault) ==
  /\ requestId \in DOMAIN jobs
  /\ jobs[requestId].kind = "setCollectionSecret"
  /\ jobs[requestId].fn = "deriveKeyFromCode"
  /\ jobs[requestId].ran
  /\ fault \in {"none", "read", "write"}
  /\ fault # "none" => (jobs[requestId].result.code = "Succeeded")
  /\ LET j == jobs[requestId]
     IN IF j.result.code # "Succeeded"
        THEN /\ jobs' = Drop(jobs, requestId)
             /\ lastReply' = Finished(requestId, j.kind, j.callerPid, j.collectionName, j.result)
             /\ UNCHANGED <<bkdbSecrets, m_collectionEncryptionKeys>>
        ELSE setCollectionSecretWithEncryptionKey(requestId, j.callerPid, j.collectionName,
                 j.secretName, j.data, j.userInteractionMode, j.meta, j.outKey, fault)
  /\ UNCHANGED <<bkdbCollections, pluginVars, busy, m_collectionLockTimers, timers,
                 m_pendingRequests, uiInteractions, nextRequestId, requestsLeft>>
  /\ UNCHANGED restVars

\* a finalise that cleans up after every failed plugin write
setCollectionSecretCleanupDueAlways(pluginResult, alreadyExists) ==
  pluginResult.code = "Failed"

\* the test that opens the cleanup branch of the finalise (line 1409)
setCollectionSecretCleanupDue(pluginResult, alreadyExists) ==
  pluginResult.code = "Failed" /\ ~alreadyExists

\* the lambda connected to the store watcher (lines 1383-1393) with
\* setCollectionSecretWithEncryptionKeyFinalise (lines 1397-1425)
setCollectionSecretFinished(requestId, fault) ==
  /\ requestId \in DOMAIN jobs
  /\ jobs[requestId].kind = "setCollectionSecret"
  /\ jobs[requestId].fn = "storeSecret"
  /\ jobs[requestId].ran
  /\ fault \in {"none", "write"}
  /\ LET j == jobs[requestId]
         hashedSecretName == generateHashedSecretName(j.collectionName, j.secretName)
         cleanup == setCollectionSecretCleanupDue(j.result, j.secretAlreadyExists)
         cleanupResult == IF fault = "write" THEN DatabaseError ELSE Succeeded
         returnResult == IF cleanup THEN cleanupOutcome(j.result, cleanupResult)
                         ELSE j.result
     IN /\ fault # "none" => (cleanup)
        /\ bkdbSecrets' = IF cleanup /\ fault = "none"
                          THEN deleteSecretRow(j.collectionName, hashedSecretName)
                          ELSE bkdbSecrets
        /\ jobs' = Drop(jobs, requestId)
        /\ lastReply' = [Finished(requestId, j.kind, j.callerPid, j.collectionName, returnResult)
                           EXCEPT !.pluginResult = j.result, !.cleanupRan = cleanup,
                                  !.cleanupResult = cleanupResult]
  /\ UNCHANGED <<bkdbCollections, pluginVars, busy, keyVars, m_pendingRequests,
                 uiInteractions, nextRequestId, requestsLeft>>
  /\ UNCHANGED restVars

\* ------------------------------------------------- secret metadata for the crypto API
\* the Result of setCollectionSecretMetadata (lines 676-815)
setCollectionSecretMetadataResult(callerPid, collectionName, secretName, fault) ==
  IF IdentifierResult(collectionName, secretName) # Succeeded
  THEN IdentifierResult(collectionName, secretName)
  ELSE IF ~interleavedRequestsAllowed(collectionName) THEN interleavedRequestError
  ELSE IF fault = "read" THEN DatabaseError
  ELSE IF ~collectionAlreadyExists(collectionName) THEN Error("InvalidCollectionError")
  ELSE LET meta == bkdbCollections[collectionName]
       IN IF AccessControlResult(meta, applicationId(callerPid)) # Succeeded
          THEN AccessControlResult(meta, applicationId(callerPid))
          ELSE IF StoredPluginsResult(meta) # Succeeded THEN StoredPluginsResult(meta)
          ELSE IF meta.storagePluginName # meta.encryptionPluginName
          THEN Error("InvalidExtensionPluginError")
          ELSE IF isCollectionLocked(meta.storagePluginName, collectionName).result # Succeeded
          THEN isCollectionLocked(meta.storagePluginName, collectionName).result
          ELSE IF isCollectionLocked(meta.storagePluginName, collectionName).locked
          THEN IF meta.usesDeviceLockKey THEN Error("CollectionIsLockedError")
               ELSE Error("OperationRequiresUserInteraction")
          ELSE IF secretAlreadyExists(collectionName,
                                      generateHashedSecretName(collectionName, secretName))
          THEN Error("SecretAlreadyExistsError")
          ELSE IF fault = "write" THEN DatabaseError
          ELSE Succeeded

\* setCollectionSecretMetadata (lines 676-815): the call returns its Result itself
setCollectionSecretMetadata(callerPid, collectionName, secretName, fault) ==
  /\ CanCall(fault)
  /\ fault \in {"none", "read", "write"}
  /\ LET requestId == nextRequestId
         result == setCollectionSecretMetadataResult(callerPid, collectionName, secretName, fault)
     IN /\ nextRequestId' = requestId + 1
        /\ requestsLeft' = requestsLeft - 1
        /\ bkdbSecrets' =
             IF result = Succeeded
             THEN insertSecret(collectionName,
                               generateHashedSecretName(collectionName, secretName),
                               bkdbCollections[collectionName])
             ELSE bkdbSecrets
        /\ lastReply' = Return(requestId, "setCollectionSecretMetadata", callerPid,
                               collectionName, result)
  /\ UNCHANGED <<bkdbCollections, pluginVars, busy, keyVars, m_pendingRequests,
                 uiInteractions, jobs>>
  /\ UNCHANGED restVars

\* the Result of deleteCollectionSecretMetadata (lines 821-846): callerPid is unused
deleteCollectionSecretMetadataResult(callerPid, collectionName, secretName, fault) ==
  IF IdentifierResult(collectionName, secretName) # Succeeded
  THEN IdentifierResult(collectionName, secretName)
  ELSE IF fault = "write" THEN DatabaseError
  ELSE Succeeded

\* deleteCollectionSecretMetadata (lines 821-846)
deleteCollectionSecretMetadata(callerPid, collectionName, secretName, fault) ==
  /\ CanCall(fault)
  /\ fault \in {"none", "write"}
  /\ LET requestId == nextRequestId
         result == deleteCollectionSecretMetadataResult(callerPid, collectionName, secretName,
                                                       fault)
     IN /\ nextRequestId' = requestId + 1
        /\ requestsLeft' = requestsLeft - 1
        /\ bkdbSecrets' =
             IF result = Succeeded
             THEN deleteSecretRow(collectionName,
                                  generateHashedSecretName(collectionName, secretName))
             ELSE bkdbSecrets
        /\ lastReply' = Return(requestId, "deleteCollectionSecretMetadata", callerPid,
                               collectionName, result)
  /\ UNCHANGED <<bkdbCollections, pluginVars, busy, keyVars, m_pendingRequests,
                 uiInteractions, jobs>>
  /\ UNCHANGED restVars

\* ------------------------------------------------- getCollectionSecret
\* new QTimer(this): an address no live timer has
NewTimer == CHOOSE t \in 1..(Cardinality(timers) + 1) : t \notin timers

\* a read that starts a timer whether or not the collection has one
armRelockTimerAlways(collectionName, meta) ==
  meta.unlockSemantic = "CustomLockTimoutRelock"

\* the tests that open the timer block of getCollectionSecretWithEncryptionKey
\* (lines 2460-2461)
armRelockTimer(collectionName, meta) ==
  /\ meta.unlockSemantic = "CustomLockTimoutRelock"
  /\ collectionName \notin DOMAIN m_collectionLockTimers

\* getCollectionSecretWithEncryptionKey (lines 2442-2509), up to its QtConcurrent::run
getCollectionSecretWithEncryptionKey(requestId, callerPid, collectionName, secretName, uim, meta, encryptionKey) ==
  LET arm == armRelockTimer(collectionName, meta)
      fused == meta.storagePluginName = meta.encryptionPluginName
      keys == IF ~fused /\ collectionName \notin DOMAIN m_collectionEncryptionKeys
              THEN Put(m_collectionEncryptionKeys, collectionName, encryptionKey)
              ELSE m_collectionEncryptionKeys
  IN /\ m_collectionLockTimers' = IF arm THEN Put(m_collectionLockTimers, collectionName, NewTimer)
                                  ELSE m_collectionLockTimers
     /\ timers' = IF arm THEN timers \cup {NewTimer} ELSE timers
     /\ m_collectionEncryptionKeys' = keys
     /\ jobs' = Put(jobs, requestId,
                    Job("getCollectionSecret", "readSecret", callerPid, collectionName,
                        secretName, "", uim, meta,
                        IF fused THEN encryptionKey ELSE keys[collectionName], FALSE))

getCollectionSecretResult(callerPid, collectionName, secretName, userInteractionMode, fault) ==
  IF IdentifierResult(collectionName, secretName) # Succeeded
  THEN IdentifierResult(collectionName, secretName)
  ELSE IF fault = "read" THEN DatabaseError
  ELSE IF ~collectionAlreadyExists(collectionName) THEN Error("InvalidCollectionError")
  ELSE LET meta == bkdbCollections[collectionName]
       IN IF meta.storagePluginName = meta.encryptionPluginName
               /\ meta.storagePluginName \notin m_encryptedStoragePlugins
          THEN Error("InvalidExtensionPluginError")
          ELSE IF meta.storagePluginName # meta.encryptionPluginName
                    /\ meta.storagePluginName \notin m_storagePlugins
          THEN Error("InvalidExtensionPluginError")
          ELSE IF meta.storagePluginName # meta.encryptionPluginName
                    /\ meta.encryptionPluginName \notin m_encryptionPlugins
          THEN Error("InvalidExtensionPluginError")
          ELSE IF AccessControlResult(meta, applicationId(callerPid)) # Succeeded
          THEN AccessControlResult(meta, applicationId(callerPid))
          ELSE IF meta.storagePluginName = meta.encryptionPluginName
                    /\ isCollectionLocked(meta.storagePluginName, collectionName).result # Succeeded
          THEN isCollectionLocked(meta.storagePluginName, collectionName).result
          ELSE IF KeyAtHand(collectionName, meta) THEN Pending
          ELSE IF meta.usesDeviceLockKey THEN Error("CollectionIsLockedError")
          ELSE IF userInteractionMode = "PreventInteraction"
          THEN Error("OperationRequiresUserInteraction")
          ELSE IF fault = "ui" THEN Error("InteractionError")
          ELSE Pending

\* getCollectionSecret (lines 2156-2373)
getCollectionSecret(callerPid, collectionName, secretName, userInteractionMode, fault) ==
  /\ CanCall(fault)
  /\ fault \in {"none", "read", "ui"}
  /\ LET requestId == nextRequestId
         result == getCollectionSecretResult(callerPid, collectionName, secretName,
                                             userInteractionMode, fault)
         meta == bkdbCollections[collectionName]
         fused == meta.storagePluginName = meta.encryptionPluginName
     IN /\ nextRequestId' = requestId + 1
        /\ requestsLeft' = requestsLeft - 1
        /\ IF result # Pending
           THEN /\ lastReply' = Return(requestId, "getCollectionSecret", callerPid,
                                       collectionName, result)
                /\ UNCHANGED <<keyVars, jobs, m_pendingRequests, uiInteractions>>
           ELSE IF KeyAtHand(collectionName, meta)
           THEN /\ getCollectionSecretWithEncryptionKey(requestId, callerPid, collectionName,
                      secretName, userInteractionMode, meta,
                      IF fused THEN NoKey ELSE m_collectionEncryptionKeys[collectionName])
                /\ UNCHANGED <<lastReply, m_pendingRequests, uiInteractions>>
           ELSE /\ m_pendingRequests' =
                     Put(m_pendingRequests, requestId,
                         PendingRequest("GetCollectionSecretRequest", callerPid, collectionName,
                                        secretName, "", userInteractionMode, meta))
                /\ uiInteractions' = uiInteractions \cup {requestId}
                /\ UNCHANGED <<lastReply, keyVars, jobs>>
        /\ UNCHANGED <<bkdbVars, pluginVars, busy>>
  /\ UNCHANGED restVars

\* getCollectionSecretWithAuthenticationCode (lines 2376-2439), called by
\* userInputInteractionCompleted; the pending request carries the plugin
\* names, the unlock semantic and the timeout of the collection
getCollectionSecretWithAuthenticationCode(requestId, pr, authenticationCode) ==
  LET result == IF pr.meta.storagePluginName = pr.meta.encryptionPluginName
                THEN IF pr.meta.storagePluginName \notin m_encryptedStoragePlugins
                     THEN Error("InvalidExtensionPluginError") ELSE Pending
                ELSE IF pr.meta.encryptionPluginName \notin m_encryptionPlugins
                     THEN Error("InvalidExtensionPluginError") ELSE Pending
  IN /\ jobs' = IF result = Pending
                THEN Put(jobs, requestId,
                         Job("getCollectionSecret", "deriveKeyFromCode", pr.callerPid,
                             pr.collectionName, pr.secretName, "",
                             pr.userInteractionMode, pr.meta, authenticationCode, FALSE))
                ELSE jobs
     /\ m_pendingRequests' = Drop(m_pendingRequests, requestId)
     /\ uiInteractions' = uiInteractions \ {requestId}
     /\ lastReply' = IF result = Pending THEN lastReply
                     ELSE Finished(requestId, "getCollectionSecret", pr.callerPid,
                                   pr.collectionName, result)
     /\ UNCHANGED <<bkdbVars, busy, keyVars>>

\* the lambda connected to the deriveKeyFromCode watcher (lines 2421-2436)
getCollectionSecretKeyDerived(requestId) ==
  /\ requestId \in DOMAIN jobs
  /\ jobs[requestId].kind = "getCollectionSecret"
  /\ jobs[requestId].fn = "deriveKeyFromCode"
  /\ jobs[requestId].ran
  /\ LET j == jobs[requestId]
     IN IF j.result.code # "Succeeded"
        THEN /\ jobs' = Drop(jobs, requestId)
             /\ lastReply' = Finished(requestId, j.kind, j.callerPid, j.collectionName, j.result)
             /\ UNCHANGED keyVars
        ELSE /\ getCollectionSecretWithEncryptionKey(requestId, j.callerPid, j.collectionName,
                   j.secretName, j.userInteractionMode, j.meta, j.outKey)
             /\ UNCHANGED lastReply
  /\ UNCHANGED <<bkdbVars, pluginVars, busy, m_pendingRequests, uiInteractions,
                 nextRequestId, requestsLeft>>
  /\ UNCHANGED restVars

\* a read watcher whose lambda forgets the request without an answer
getCollectionSecretFinishedSilently(requestId) ==
  /\ requestId \in DOMAIN jobs
  /\ jobs[requestId].kind = "getCollectionSecret"
  /\ jobs[requestId].fn = "readSecret"
  /\ jobs[requestId].ran
  /\ jobs' = Drop(jobs, requestId)
  /\ UNCHANGED <<bkdbVars, pluginVars, busy, keyVars, m_pendingRequests, uiInteractions,
                 nextRequestId, requestsLeft, lastReply>>
  /\ UNCHANGED restVars

\* the lambda connected to the read watcher (lines 2501-2508)
getCollectionSecretFinished(requestId) ==
  /\ requestId \in DOMAIN jobs
  /\ jobs[requestId].kind = "getCollectionSecret"
  /\ jobs[requestId].fn = "readSecret"
  /\ jobs[requestId].ran
  /\ LET j == jobs[requestId]
     IN /\ jobs' = Drop(jobs, requestId)
        /\ lastReply' = [Finished(requestId, j.kind, j.callerPid, j.collectionName, j.result)
                           EXCEPT !.pluginResult = j.result,
                                  !.hasSecret = (j.result.code = "Succeeded"),
                                  !.secret = j.secret]
  /\ UNCHANGED <<bkdbVars, pluginVars, busy, keyVars, m_pendingRequests, uiInteractions,
                 nextRequestId, requestsLeft>>
  /\ UNCHANGED restVars

\* ------------------------------------------------- findCollectionSecrets
\* findCollectionSecretsWithEncryptionKey (lines 3105-3175), up to its QtConcurrent::run
findCollectionSecretsWithEncryptionKey(requestId, callerPid, collectionName, uim, meta, encryptionKey) ==
  LET arm == armRelockTimer(collectionName, meta)
      fused == meta.storagePluginName = meta.encryptionPluginName
      keys == IF ~fused /\ collectionName \notin DOMAIN m_collectionEncryptionKeys
              THEN Put(m_collectionEncryptionKeys, collectionName, encryptionKey)
              ELSE m_collectionEncryptionKeys
  IN /\ m_collectionLockTimers' = IF arm THEN Put(m_collectionLockTimers, collectionName, NewTimer)
                                  ELSE m_collectionLockTimers
     /\ timers' = IF arm THEN timers \cup {NewTimer} ELSE timers
     /\ m_collectionEncryptionKeys' = keys
     /\ jobs' = Put(jobs, requestId,
                    Job("findCollectionSecrets", "findSecrets", callerPid, collectionName,
                        "", "", uim, meta,
                        IF fused THEN encryptionKey ELSE keys[collectionName], FALSE))

\* the Result of findCollectionSecrets (lines 2806-3035); filterEmpty: the
\* filter of the call has no entry
findCollectionSecretsResult(callerPid, collectionName, filterEmpty, userInteractionMode, fault) ==
  IF collectionName = "" THEN Error("InvalidCollectionError")
  ELSE IF IsReservedName(collectionName) THEN Error("InvalidCollectionError")
  ELSE IF filterEmpty THEN Error("InvalidFilterError")
  ELSE IF fault = "read" THEN DatabaseError
  ELSE IF ~collectionAlreadyExists(collectionName) THEN Error("InvalidCollectionError")
  ELSE LET meta == bkdbCollections[collectionName]
       IN IF meta.storagePluginName = meta.encryptionPluginName
               /\ meta.storagePluginName \notin m_encryptedStoragePlugins
          THEN Error("InvalidExtensionPluginError")
          ELSE IF meta.storagePluginName # meta.encryptionPluginName
                    /\ meta.storagePluginName \notin m_storagePlugins
          THEN Error("InvalidExtensionPluginError")
          ELSE IF meta.storagePluginName # meta.encryptionPluginName
                    /\ meta.encryptionPluginName \notin m_encryptionPlugins
          THEN Error("InvalidExtensionPluginError")
          ELSE IF AccessControlResult(meta, applicationId(callerPid)) # Succeeded
          THEN AccessControlResult(meta, applicationId(callerPid))
          ELSE IF meta.storagePluginName = meta.encryptionPluginName
                    /\ isCollectionLocked(meta.storagePluginName, collectionName).result # Succeeded
          THEN isCollectionLocked(meta.storagePluginName, collectionName).result
          ELSE IF KeyAtHand(collectionName, meta) THEN Pending
          ELSE IF meta.usesDeviceLockKey THEN Error("CollectionIsLockedError")
          ELSE IF userInteractionMode = "PreventInteraction"
          THEN Error("OperationRequiresUserInteraction")
          ELSE IF fault = "ui" THEN Error("InteractionError")
          ELSE Pending

\* findCollectionSecrets (lines 2806-3035)
findCollectionSecrets(callerPid, collectionName, filterEmpty, userInteractionMode, fault) ==
  /\ CanCall(fault)
  /\ fault \in {"none", "read", "ui"}
  /\ LET requestId == nextRequestId
         result == findCollectionSecretsResult(callerPid, collectionName, filterEmpty,
                                               userInteractionMode, fault)
         meta == bkdbCollections[collectionName]
         fused == meta.storagePluginName = meta.encryptionPluginName
     IN /\ nextRequestId' = requestId + 1
        /\ requestsLeft' = requestsLeft - 1
        /\ IF result # Pending
           THEN /\ lastReply' = Return(requestId, "findCollectionSecrets", callerPid,
                                       collectionName, result)
                /\ UNCHANGED <<keyVars, jobs, m_pendingRequests, uiInteractions>>
           ELSE IF KeyAtHand(collectionName, meta)
           THEN /\ findCollectionSecretsWithEncryptionKey(requestId, callerPid, collectionName,
                      userInteractionMode, meta,
                      IF fused THEN NoKey ELSE m_collectionEncryptionKeys[collectionName])
                /\ UNCHANGED <<lastReply, m_pendingRequests, uiInteractions>>
           ELSE /\ m_pendingRequests' =
                     Put(m_pendingRequests, requestId,
                         PendingRequest("FindCollectionSecretsRequest", callerPid, collectionName,
                                        "", "", userInteractionMode, meta))
                /\ uiInteractions' = uiInteractions \cup {requestId}
                /\ UNCHANGED <<lastReply, keyVars, jobs>>
        /\ UNCHANGED <<bkdbVars, pluginVars, busy>>
  /\ UNCHANGED restVars

\* findCollectionSecretsWithAuthenticationCode (lines 3036-3103), called by
\* userInputInteractionCompleted
findCollectionSecretsWithAuthenticationCode(requestId, pr, authenticationCode) ==
  LET result == IF pr.meta.storagePluginName = pr.meta.encryptionPluginName
                THEN IF pr.meta.storagePluginName \notin m_encryptedStoragePlugins
                     THEN Error("InvalidExtensionPluginError") ELSE Pending
                ELSE IF pr.meta.encryptionPluginName \notin m_encryptionPlugins
                     THEN Error("InvalidExtensionPluginError") ELSE Pending
  IN /\ jobs' = IF result = Pending
                THEN Put(jobs, requestId,
                         Job("findCollectionSecrets", "deriveKeyFromCode", pr.callerPid,
                             pr.collectionName, "", "",
                             pr.userInteractionMode, pr.meta, authenticationCode, FALSE))
                ELSE jobs
     /\ m_pendingRequests' = Drop(m_pendingRequests, requestId)
     /\ uiInteractions' = uiInteractions \ {requestId}
     /\ lastReply' = IF result = Pending THEN lastReply
                     ELSE Finished(requestId, "findCollectionSecrets", pr.callerPid,
                                   pr.collectionName, result)
     /\ UNCHANGED <<bkdbVars, busy, keyVars>>

\* the lambda connected to the deriveKeyFromCode watcher (lines 3084-3100)
findCollectionSecretsKeyDerived(requestId) ==
  /\ requestId \in DOMAIN jobs
  /\ jobs[requestId].kind = "findCollectionSecrets"
  /\ jobs[requestId].fn = "deriveKeyFromCode"
  /\ jobs[requestId].ran
  /\ LET j == jobs[requestId]
     IN IF j.result.code # "Succeeded"
        THEN /\ jobs' = Drop(jobs, requestId)
             /\ lastReply' = Finished(requestId, j.kind, j.callerPid, j.collectionName, j.result)
             /\ UNCHANGED keyVars
        ELSE /\ findCollectionSecretsWithEncryptionKey(requestId, j.callerPid, j.collectionName,
                   j.userInteractionMode, j.meta, j.outKey)
             /\ UNCHANGED lastReply
  /\ UNCHANGED <<bkdbVars, pluginVars, busy, m_pendingRequests, uiInteractions,
                 nextRequestId, requestsLeft>>
  /\ UNCHANGED restVars

\* the lambda connected to the find watcher (lines 3167-3174)
findCollectionSecretsFinished(requestId) ==
  /\ requestId \in DOMAIN jobs
  /\ jobs[requestId].kind = "findCollectionSecrets"
  /\ jobs[requestId].fn = "findSecrets"
  /\ jobs[requestId].ran
  /\ LET j == jobs[requestId]
     IN /\ jobs' = Drop(jobs, requestId)
        /\ lastReply' = [Finished(requestId, j.kind, j.callerPid, j.collectionName, j.result)
                           EXCEPT !.pluginResult = j.result]
  /\ UNCHANGED <<bkdbVars, pluginVars, busy, keyVars, m_pendingRequests, uiInteractions,
                 nextRequestId, requestsLeft>>
  /\ UNCHANGED restVars

\* ------------------------------------------------- deleteCollectionSecret
\* the Result of the checks of deleteCollectionSecretWithEncryptionKey (lines 3479-3529)
deleteCollectionSecretWithEncryptionKeyResult(callerPid, collectionName, encryptionKey, fault) ==
  IF fault = "read" THEN DatabaseError
  ELSE IF ~collectionAlreadyExists(collectionName) THEN Error("InvalidCollectionError")
  ELSE IF bkdbCollections[collectionName].usesDeviceLockKey /\ encryptionKey # DeviceLockKey
  THEN Error("IncorrectAuthenticationCodeError")
  ELSE AccessControlResult(bkdbCollections[collectionName], applicationId(callerPid))

\* deleteCollectionSecretWithEncryptionKey (lines 3460-3582), up to its QtConcurrent::run
deleteCollectionSecretWithEncryptionKey(requestId, callerPid, collectionName, secretName, uim, encryptionKey, fault) ==
  LET result == deleteCollectionSecretWithEncryptionKeyResult(callerPid, collectionName,
                                                              encryptionKey, fault)
      meta == bkdbCollections[collectionName]
  IN IF result # Succeeded
     THEN /\ jobs' = Drop(jobs, requestId)
          /\ lastReply' = Finished(requestId, "deleteCollectionSecret", callerPid,
                                   collectionName, result)
          /\ UNCHANGED m_collectionEncryptionKeys
     ELSE /\ m_collectionEncryptionKeys' =
               IF /\ meta.storagePluginName # meta.encryptionPluginName
                  /\ collectionName \notin DOMAIN m_collectionEncryptionKeys
               THEN Put(m_collectionEncryptionKeys, collectionName, encryptionKey)
               ELSE m_collectionEncryptionKeys
          /\ jobs' = Put(jobs, requestId,
                         Job("deleteCollectionSecret", "removeSecret", callerPid, collectionName,
                             secretName, "", uim, meta, encryptionKey, FALSE))
          /\ UNCHANGED lastReply

deleteCollectionSecretResult(callerPid, collectionName, secretName, userInteractionMode, fault) ==
  IF IdentifierResult(collectionName, secretName) # Succeeded
  THEN IdentifierResult(collectionName, secretName)
  ELSE IF fault = "read" THEN DatabaseError
  ELSE IF ~collectionAlreadyExists(collectionName) THEN Error("InvalidCollectionError")
  ELSE LET meta == bkdbCollections[collectionName]
       IN IF AccessControlResult(meta, applicationId(callerPid)) # Succeeded
          THEN AccessControlResult(meta, applicationId(callerPid))
          ELSE IF StoredPluginsResult(meta) # Succeeded THEN StoredPluginsResult(meta)
          ELSE IF meta.storagePluginName = meta.encryptionPluginName
                    /\ isCollectionLocked(meta.storagePluginName, collectionName).result # Succeeded
          THEN isCollectionLocked(meta.storagePluginName, collectionName).result
          ELSE IF KeyAtHand(collectionName, meta) THEN Pending
          ELSE IF meta.usesDeviceLockKey THEN Error("CollectionIsLockedError")
          ELSE IF userInteractionMode = "PreventInteraction"
          THEN Error("OperationRequiresUserInteraction")
          ELSE IF fault = "ui" THEN Error("InteractionError")
          ELSE Pending

\* deleteCollectionSecret (lines 3202-3395)
deleteCollectionSecret(callerPid, collectionName, secretName, userInteractionMode, fault) ==
  /\ CanCall(fault)
  /\ fault \in {"none", "read", "ui"}
  /\ LET requestId == nextRequestId
         result == deleteCollectionSecretResult(callerPid, collectionName, secretName,
                                                userInteractionMode, fault)
         meta == bkdbCollections[collectionName]
         fused == meta.storagePluginName = meta.encryptionPluginName
     IN /\ nextRequestId' = requestId + 1
        /\ requestsLeft' = requestsLeft - 1
        /\ IF result # Pending
           THEN /\ lastReply' = Return(requestId, "deleteCollectionSecret", callerPid,
                                       collectionName, result)
                /\ UNCHANGED <<m_collectionEncryptionKeys, jobs, m_pendingRequests,
                               uiInteractions>>
           ELSE IF KeyAtHand(collectionName, meta)
           THEN /\ deleteCollectionSecretWithEncryptionKey(requestId, callerPid, collectionName,
                      secretName, userInteractionMode,
                      IF fused THEN DeviceLockKey
                      ELSE m_collectionEncryptionKeys[collectionName], "none")
                /\ UNCHANGED <<m_pendingRequests, uiInteractions>>
           ELSE /\ m_pendingRequests' =
                     Put(m_pendingRequests, requestId,
                         PendingRequest("DeleteCollectionSecretRequest", callerPid,
                                        collectionName, secretName, "", userInteractionMode,
                                        meta))
                /\ uiInteractions' = uiInteractions \cup {requestId}
                /\ UNCHANGED <<lastReply, m_collectionEncryptionKeys, jobs>>
        /\ UNCHANGED <<bkdbVars, pluginVars, busy, m_collectionLockTimers, timers>>
  /\ UNCHANGED restVars

\* deleteCollectionSecretWithAuthenticationCode (lines 3398-3457), called by
\* userInputInteractionCompleted
deleteCollectionSecretWithAuthenticationCode(requestId, pr, authenticationCode) ==
  LET result == IF pr.meta.storagePluginName = pr.meta.encryptionPluginName
                THEN IF pr.meta.storagePluginName \notin m_encryptedStoragePlugins
                     THEN Error("InvalidExtensionPluginError") ELSE Pending
                ELSE IF pr.meta.encryptionPluginName \notin m_encryptionPlugins
                     THEN Error("InvalidExtensionPluginError") ELSE Pending
  IN /\ jobs' = IF result = Pending
                THEN Put(jobs, requestId,
                         Job("deleteCollectionSecret", "deriveKeyFromCode", pr.callerPid,
                             pr.collectionName, pr.secretName, "",
                             pr.userInteractionMode, pr.meta, authenticationCode, FALSE))
                ELSE jobs
     /\ m_pendingRequests' = Drop(m_pendingRequests, requestId)
     /\ uiInteractions' = uiInteractions \ {requestId}
     /\ lastReply' = IF result = Pending THEN lastReply
                     ELSE Finished(requestId, "deleteCollectionSecret", pr.callerPid,
                                   pr.collectionName, result)
     /\ UNCHANGED <<bkdbVars, busy, keyVars>>

\* the lambda connected to the deriveKeyFromCode watcher (lines 3441-3454)
deleteCollectionSecretKeyDerived(requestId, fault) ==
  /\ requestId \in DOMAIN jobs
  /\ jobs[requestId].kind = "deleteCollectionSecret"
  /\ jobs[requestId].fn = "deriveKeyFromCode"
  /\ jobs[requestId].ran
  /\ fault \in {"none", "read"}
  /\ fault # "none" => (jobs[requestId].result.code = "Succeeded")
  /\ LET j == jobs[requestId]
     IN IF j.result.code # "Succeeded"
        THEN /\ jobs' = Drop(jobs, requestId)
             /\ lastReply' = Finished(requestId, j.kind, j.callerPid, j.collectionName, j.result)
             /\ UNCHANGED m_collectionEncryptionKeys
        ELSE deleteCollectionSecretWithEncryptionKey(requestId, j.callerPid, j.collectionName,
                 j.secretName, j.userInteractionMode, j.outKey, fault)
  /\ UNCHANGED <<bkdbVars, pluginVars, busy, m_collectionLockTimers, timers,
                 m_pendingRequests, uiInteractions, nextRequestId, requestsLeft>>
  /\ UNCHANGED restVars

\* the lambda connected to the remove watcher (lines 3557-3581)
deleteCollectionSecretFinished(requestId, fault) ==
  /\ requestId \in DOMAIN jobs
  /\ jobs[requestId].kind = "deleteCollectionSecret"
  /\ jobs[requestId].fn = "removeSecret"
  /\ jobs[requestId].ran
  /\ fault \in {"none", "write"}
  /\ fault # "none" => (jobs[requestId].result.code = "Succeeded")
  /\ LET j == jobs[requestId]
         hashedSecretName == generateHashedSecretName(j.collectionName, j.secretName)
         deleteResult == IF fault = "write" THEN DatabaseError ELSE Succeeded
         returnResult == IF j.result.code = "Succeeded" /\ deleteResult.code # "Succeeded"
                         THEN deleteResult ELSE j.result
     IN /\ bkdbSecrets' = IF j.result.code = "Succeeded" /\ fault = "none"
                          THEN deleteSecretRow(j.collectionName, hashedSecretName)
                          ELSE bkdbSecrets
        /\ jobs' = Drop(jobs, requestId)
        /\ lastReply' = [Finished(requestId, j.kind, j.callerPid, j.collectionName, returnResult)
                           EXCEPT !.pluginResult = j.result]
  /\ UNCHANGED <<bkdbCollections, pluginVars, busy, keyVars, m_pendingRequests,
                 uiInteractions, nextRequestId, requestsLeft>>
  /\ UNCHANGED restVars

\* ------------------------------------------------- getStandaloneSecret
\* new QTimer(this) for a standalone secret
NewSecretTimer == CHOOSE t \in 1..(Cardinality(secretTimers) + 1) : t \notin secretTimers

\* getStandaloneSecretWithEncryptionKey (lines 2718-2803), up to its QtConcurrent::run
getStandaloneSecretWithEncryptionKey(requestId, callerPid, secretName, uim, meta, encryptionKey) ==
  LET arm == /\ meta.unlockSemantic = "CustomLockTimoutRelock"
             /\ secretName \notin DOMAIN m_standaloneSecretLockTimers
      fused == meta.storagePluginName = meta.encryptionPluginName
      hashedSecretName == generateHashedSecretName("standalone", secretName)
      keys == IF ~fused /\ hashedSecretName \notin DOMAIN m_standaloneSecretEncryptionKeys
              THEN Put(m_standaloneSecretEncryptionKeys, hashedSecretName, encryptionKey)
              ELSE m_standaloneSecretEncryptionKeys
  IN /\ m_standaloneSecretLockTimers' =
          IF arm THEN Put(m_standaloneSecretLockTimers, secretName, NewSecretTimer)
          ELSE m_standaloneSecretLockTimers
     /\ secretTimers' = IF arm THEN secretTimers \cup {NewSecretTimer} ELSE secretTimers
     /\ m_standaloneSecretEncryptionKeys' = keys
     /\ jobs' = Put(jobs, requestId,
                    Job("getStandaloneSecret", IF fused THEN "accessSecret" ELSE "readSecret",
                        callerPid, "standalone", secretName, "", uim, meta,
                        IF fused THEN encryptionKey ELSE keys[hashedSecretName], FALSE))

getStandaloneSecretResult(callerPid, collectionName, secretName, userInteractionMode, fault) ==
  LET hashedSecretName == generateHashedSecretName("standalone", secretName)
  IN IF secretName = "" THEN Error("InvalidSecretError")
     ELSE IF collectionName # "" THEN Error("InvalidCollectionError")
     ELSE IF fault = "read" THEN DatabaseError
     ELSE IF ~secretAlreadyExists("standalone", hashedSecretName)
     THEN Error("InvalidSecretError")
     ELSE LET meta == bkdbSecrets[<<"standalone", hashedSecretName>>]
          IN IF StoredPluginsResult(meta) # Succeeded THEN StoredPluginsResult(meta)
             ELSE IF AccessControlResult(meta, applicationId(callerPid)) # Succeeded
             THEN AccessControlResult(meta, applicationId(callerPid))
             ELSE IF hashedSecretName \in DOMAIN m_standaloneSecretEncryptionKeys THEN Pending
             ELSE IF meta.usesDeviceLockKey THEN Error("CollectionIsLockedError")
             ELSE IF userInteractionMode = "PreventInteraction"
             THEN Error("OperationRequiresUserInteraction")
             ELSE IF fault = "ui" THEN Error("InteractionError")
             ELSE Pending

\* getStandaloneSecret (lines 2513-2648)
getStandaloneSecret(callerPid, collectionName, secretName, userInteractionMode, fault) ==
  /\ CanCall(fault)
  /\ fault \in {"none", "read", "ui"}
  /\ LET requestId == nextRequestId
         result == getStandaloneSecretResult(callerPid, collectionName, secretName,
                                             userInteractionMode, fault)
         hashedSecretName == generateHashedSecretName("standalone", secretName)
         meta == bkdbSecrets[<<"standalone", hashedSecretName>>]
     IN /\ nextRequestId' = requestId + 1
        /\ requestsLeft' = requestsLeft - 1
        /\ IF result # Pending
           THEN /\ lastReply' = Return(requestId, "getStandaloneSecret", callerPid,
                                       "standalone", result)
                /\ UNCHANGED <<standaloneVars, jobs, m_pendingRequests, uiInteractions>>
           ELSE IF hashedSecretName \in DOMAIN m_standaloneSecretEncryptionKeys
           THEN /\ getStandaloneSecretWithEncryptionKey(requestId, callerPid, secretName,
                      userInteractionMode, meta,
                      m_standaloneSecretEncryptionKeys[hashedSecretName])
                /\ UNCHANGED <<lastReply, m_pendingRequests, uiInteractions>>
           ELSE /\ m_pendingRequests' =
                     Put(m_pendingRequests, requestId,
                         PendingRequest("GetStandaloneSecretRequest", callerPid, "standalone",
                                        secretName, "", userInteractionMode, meta))
                /\ uiInteractions' = uiInteractions \cup {requestId}
                /\ UNCHANGED <<lastReply, standaloneVars, jobs>>
  /\ UNCHANGED <<bkdbVars, pluginVars, busy, keyVars, deviceLockKey, lockVars, inFlightLimit>>

\* getStandaloneSecretWithAuthenticationCode (lines 2652-2715), called by
\* userInputInteractionCompleted
getStandaloneSecretWithAuthenticationCode(requestId, pr, authenticationCode) ==
  LET result == IF pr.meta.storagePluginName = pr.meta.encryptionPluginName
                THEN IF pr.meta.storagePluginName \notin m_encryptedStoragePlugins
                     THEN Error("InvalidExtensionPluginError") ELSE Pending
                ELSE IF pr.meta.encryptionPluginName \notin m_encryptionPlugins
                     THEN Error("InvalidExtensionPluginError") ELSE Pending
  IN /\ jobs' = IF result = Pending
                THEN Put(jobs, requestId,
                         Job("getStandaloneSecret", "deriveKeyFromCode", pr.callerPid,
                             "standalone", pr.secretName, "",
                             pr.userInteractionMode, pr.meta, authenticationCode, FALSE))
                ELSE jobs
     /\ m_pendingRequests' = Drop(m_pendingRequests, requestId)
     /\ uiInteractions' = uiInteractions \ {requestId}
     /\ lastReply' = IF result = Pending THEN lastReply
                     ELSE Finished(requestId, "getStandaloneSecret", pr.callerPid,
                                   "standalone", result)
     /\ UNCHANGED <<bkdbVars, busy, keyVars>>

\* the lambda connected to the deriveKeyFromCode watcher (lines 2697-2712)
getStandaloneSecretKeyDerived(requestId) ==
  /\ requestId \in DOMAIN jobs
  /\ jobs[requestId].kind = "getStandaloneSecret"
  /\ jobs[requestId].fn = "deriveKeyFromCode"
  /\ jobs[requestId].ran
  /\ LET j == jobs[requestId]
     IN IF j.result.code # "Succeeded"
        THEN /\ jobs' = Drop(jobs, requestId)
             /\ lastReply' = Finished(requestId, j.kind, j.callerPid, j.collectionName, j.result)
             /\ UNCHANGED standaloneVars
        ELSE /\ getStandaloneSecretWithEncryptionKey(requestId, j.callerPid, j.secretName,
                   j.userInteractionMode, j.meta, j.outKey)
             /\ UNCHANGED lastReply
  /\ UNCHANGED <<bkdbVars, pluginVars, busy, keyVars, m_pendingRequests, uiInteractions,
                 nextRequestId, requestsLeft, deviceLockKey, lockVars, inFlightLimit>>

\* the lambdas connected to the read watchers (lines 2763-2773 and 2792-2800)
getStandaloneSecretFinished(requestId) ==
  /\ requestId \in DOMAIN jobs
  /\ jobs[requestId].kind = "getStandaloneSecret"
  /\ jobs[requestId].fn \in {"accessSecret", "readSecret"}
  /\ jobs[requestId].ran
  /\ LET j == jobs[requestId]
     IN /\ jobs' = Drop(jobs, requestId)
        /\ lastReply' = [Finished(requestId, j.kind, j.callerPid, j.collectionName, j.result)
                           EXCEPT !.pluginResult = j.result,
                                  !.hasSecret = (j.result.code = "Succeeded"),
                                  !.secret = j.secret]
  /\ UNCHANGED <<bkdbVars, pluginVars, busy, keyVars, m_pendingRequests, uiInteractions,
                 nextRequestId, requestsLeft>>
  /\ UNCHANGED restVars

\* timeoutRelockSecret (lines 4738-4750): the slot of a standalone secret's timer;
\* it removes from the key cache the entry whose key is the timer map's key
timeoutRelockSecret(timer) ==
  /\ timer \in secretTimers
  /\ secretTimers' = secretTimers \ {timer}
  /\ LET hit == {n \in DOMAIN m_standaloneSecretLockTimers :
                   m_standaloneSecretLockTimers[n] = timer}
     IN /\ m_standaloneSecretEncryptionKeys' =
             [h \in DOMAIN m_standaloneSecretEncryptionKeys \ hit
                |-> m_standaloneSecretEncryptionKeys[h]]
        /\ m_standaloneSecretLockTimers' =
             [n \in DOMAIN m_standaloneSecretLockTimers \ hit
                |-> m_standaloneSecretLockTimers[n]]
  /\ UNCHANGED <<bkdbVars, pluginVars, busy, keyVars, m_pendingRequests, uiInteractions,
                 jobs, nextRequestId, requestsLeft, lastReply, deviceLockKey, lockVars, inFlightLimit>>

\* ------------------------------------------------- setStandaloneDeviceLockSecret
\* StoragePluginWrapper::encryptAndStoreSecret / EncryptedStoragePluginWrapper::setSecret
\* for a standalone secret: the secret is written under the standalone name
storeStandaloneSecret(p, hashedSecretName, data, key) ==
  PluginOut(Succeeded, pluginCollections[p],
            Put(pluginSecrets[p], <<"standalone", hashedSecretName>>,
                [data |-> data, key |-> key]), NoKey, "")

\* m_bkdb->updateSecret(collectionName, hashedSecretName, ...)
updateSecret(collectionName, hashedSecretName, row) ==
  IF <<collectionName, hashedSecretName>> \in DOMAIN bkdbSecrets
  THEN Put(bkdbSecrets, <<collectionName, hashedSecretName>>, row)
  ELSE bkdbSecrets

\* the request parameters 'found' is stored with
StandaloneDeviceLockPending(callerPid, secretName, uim, meta, found) ==
  PendingRequest("SetStandaloneDeviceLockUserInputSecretRequest", callerPid, "standalone",
                 secretName, "", uim, meta)
    @@ [found |-> found]

\* the checks of setStandaloneDeviceLockSecret (lines 1429-1500)
setStandaloneDeviceLockSecretResult(callerPid, storagePluginName, encryptionPluginName, secretName, fault) ==
  LET h == generateHashedSecretName("standalone", secretName)
      found == <<"standalone", h>> \in DOMAIN bkdbSecrets
      row == bkdbSecrets[<<"standalone", h>>]
  IN IF secretName = "" THEN Error("InvalidSecretError")
     ELSE IF CreatePluginsResult(storagePluginName, encryptionPluginName) # Succeeded
     THEN CreatePluginsResult(storagePluginName, encryptionPluginName)
     ELSE IF fault = "read" THEN Error("DatabaseError")
     ELSE IF found /\ row.accessControlMode = "SystemAccessControlMode"
     THEN Error("OperationNotSupportedError")
     ELSE IF found /\ row.accessControlMode = "OwnerOnlyMode"
               /\ row.applicationId # applicationId(callerPid)
     THEN Error("PermissionsError")
     ELSE IF found /\ ~row.usesDeviceLockKey THEN Error("OperationNotSupportedError")
     ELSE IF found /\ row.storagePluginName # storagePluginName
     THEN Error("OperationNotSupportedError")
     ELSE Pending

\* writeStandaloneDeviceLockSecret (lines 1574-1663): the row is updated or inserted,
\* then the write is handed to the worker pool
writeStandaloneDeviceLockSecret(requestId, callerPid, secretName, data, meta, found, fault, sync) ==
  LET h == generateHashedSecretName("standalone", secretName)
  IN IF fault = "write"
     THEN /\ lastReply' = IF sync
                          THEN Return(requestId, "setStandaloneDeviceLockSecret", callerPid,
                                      "standalone", Error("DatabaseError"))
                          ELSE Finished(requestId, "setStandaloneDeviceLockSecret", callerPid,
                                        "standalone", Error("DatabaseError"))
          /\ UNCHANGED <<bkdbSecrets, jobs>>
     ELSE /\ bkdbSecrets' = IF found THEN updateSecret("standalone", h, meta)
                            ELSE Put(bkdbSecrets, <<"standalone", h>>, meta)
          /\ jobs' = Put(jobs, requestId,
                         Job("setStandaloneDeviceLockSecret", "storeStandaloneSecret",
                             callerPid, "standalone", secretName, data, "", meta,
                             deviceLockKey, found))
          /\ UNCHANGED lastReply

setStandaloneDeviceLockSecret(callerPid, storagePluginName, encryptionPluginName, secretName, data, uiParamsValid, unlockSemantic, accessControlMode, userInteractionMode, fault) ==
  /\ CanCall(fault)
  /\ LET requestId == nextRequestId
         h == generateHashedSecretName("standalone", secretName)
         found == <<"standalone", h>> \in DOMAIN bkdbSecrets
         meta == Meta(applicationId(callerPid), TRUE, storagePluginName,
                      encryptionPluginName, unlockSemantic, accessControlMode)
         result == setStandaloneDeviceLockSecretResult(callerPid, storagePluginName,
                                                       encryptionPluginName, secretName,
                                                       fault)
     IN /\ nextRequestId' = nextRequestId + 1
        /\ requestsLeft' = requestsLeft - 1
        /\ IF result # Pending
           THEN /\ fault \in {"none", "read"}
                /\ lastReply' = Return(requestId, "setStandaloneDeviceLockSecret", callerPid,
                                       "standalone", result)
                /\ UNCHANGED <<bkdbSecrets, jobs, m_pendingRequests, uiInteractions>>
           ELSE IF ~uiParamsValid
           THEN /\ fault \in {"none", "write"}
                /\ writeStandaloneDeviceLockSecret(requestId, callerPid, secretName, data,
                                                   meta, found, fault, TRUE)
                /\ UNCHANGED <<m_pendingRequests, uiInteractions>>
           ELSE IF fault = "ui"
           THEN /\ lastReply' = Return(requestId, "setStandaloneDeviceLockSecret", callerPid,
                                       "standalone", Error("InteractionViewError"))
                /\ UNCHANGED <<bkdbSecrets, jobs, m_pendingRequests, uiInteractions>>
           ELSE /\ fault = "none"
                /\ m_pendingRequests' =
                     Put(m_pendingRequests, requestId,
                         StandaloneDeviceLockPending(callerPid, secretName,
                                                     userInteractionMode, meta, found))
                /\ uiInteractions' = uiInteractions \cup {requestId}
                /\ UNCHANGED <<bkdbSecrets, jobs, lastReply>>
  /\ UNCHANGED <<bkdbCollections, pluginVars, busy, keyVars, deviceLockKey, standaloneVars,
                 lockVars, inFlightLimit>>

\* writeStandaloneDeviceLockSecretFinalise (lines 1669-1672): "if (!found)"
standaloneCleanupDue(pluginResult, found) == pluginResult.code = "Failed" /\ ~found

\* writeStandaloneDeviceLockSecretFinalise (lines 1666-1698), the watcher lambda
writeStandaloneDeviceLockSecretFinished(requestId, fault) ==
  /\ requestId \in DOMAIN jobs
  /\ jobs[requestId].ran
  /\ jobs[requestId].kind = "setStandaloneDeviceLockSecret"
  /\ LET j == jobs[requestId]
         h == generateHashedSecretName("standalone", j.secretName)
         failed == j.result.code = "Failed"
         cleanup == standaloneCleanupDue(j.result, j.secretAlreadyExists)
         returnResult == IF cleanup /\ fault = "write" THEN Error("DatabaseError")
                         ELSE j.result
     IN /\ fault \in (IF cleanup THEN {"none", "write"} ELSE {"none"})
        /\ bkdbSecrets' = IF cleanup /\ fault = "none"
                          THEN Drop(bkdbSecrets, <<"standalone", h>>)
                          ELSE bkdbSecrets
        /\ m_standaloneSecretEncryptionKeys' =
             IF ~failed /\ j.meta.storagePluginName # j.meta.encryptionPluginName
             THEN Put(m_standaloneSecretEncryptionKeys, h, j.key)
             ELSE m_standaloneSecretEncryptionKeys
        /\ jobs' = Drop(jobs, requestId)
        /\ lastReply' = [Finished(requestId, "setStandaloneDeviceLockSecret", j.callerPid,
                                  "standalone", returnResult)
                           EXCEPT !.pluginResult = j.result, !.cleanupRan = cleanup]
  /\ UNCHANGED <<bkdbCollections, pluginVars, busy, keyVars, m_pendingRequests,
                 uiInteractions, nextRequestId, requestsLeft, deviceLockKey,
                 m_standaloneSecretLockTimers, secretTimers, lockVars, inFlightLimit>>

\* ------------------------------------------------- modifyLockCode
\* the lock codes the user can type at the prompts of modifyLockCode
LockCodes == {"old", "new"}
\* permissions that take every application for the platform application
applicationIsPlatformApplicationAlways(callerPid) == TRUE
\* m_appPermissions->applicationIsPlatformApplication(callerPid)
applicationIsPlatformApplication(callerPid) == callerPid = "settings"
\* the device lock key SecretsRequestQueue::initialise derives from a lock code
deviceLockKeyOf(lockCode) == <<"devicelock", lockCode>>
\* a test that takes every lock code for the current one
testLockCodeAlways(lockCode) == TRUE
\* m_requestQueue->testLockCode(lockCode)
testLockCode(lockCode) == deviceLockKeyOf(lockCode) = deviceLockKey

\* the ModifyLockCodeRequest record of m_pendingRequests: five parameters and
\* the lock codes gathered so far
ModifyLockCodePending(callerPid, lockCodeTargetType, lockCodeTarget, uim, lockCodes) ==
  PendingRequest("ModifyLockCodeRequest", callerPid, "", "", "", uim, NoMeta)
    @@ [lockCodeTargetType |-> lockCodeTargetType, lockCodeTarget |-> lockCodeTarget,
        lockCodes |-> lockCodes]

modifyLockCodeResult(callerPid, lockCodeTargetType, lockCodeTarget, fault) ==
  IF lockCodeTargetType \in {"StandaloneSecret", "Collection"}
  THEN Error("OperationNotSupportedError")
  ELSE IF ~applicationIsPlatformApplication(callerPid) THEN Error("PermissionsError")
  ELSE IF lockCodeTargetType = "BookkeepingDatabase" /\ lockCodeTarget # ""
  THEN Error("OperationNotSupportedError")
  ELSE IF fault = "ui" THEN Error("InteractionError")
  ELSE Pending

\* modifyLockCode (lines 3694-3790)
modifyLockCode(callerPid, lockCodeTargetType, lockCodeTarget, userInteractionMode, fault) ==
  /\ CanCall(fault)
  /\ fault \in {"none", "ui"}
  /\ LET requestId == nextRequestId
         result == modifyLockCodeResult(callerPid, lockCodeTargetType, lockCodeTarget, fault)
     IN /\ nextRequestId' = requestId + 1
        /\ requestsLeft' = requestsLeft - 1
        /\ IF result # Pending
           THEN /\ lastReply' = Return(requestId, "modifyLockCode", callerPid, "", result)
                /\ UNCHANGED <<m_pendingRequests, uiInteractions>>
           ELSE /\ m_pendingRequests' =
                     Put(m_pendingRequests, requestId,
                         ModifyLockCodePending(callerPid, lockCodeTargetType, lockCodeTarget,
                                               userInteractionMode, <<>>))
                /\ uiInteractions' = uiInteractions \cup {requestId}
                /\ UNCHANGED lastReply
  /\ UNCHANGED <<bkdbVars, pluginVars, busy, keyVars, jobs>>
  /\ UNCHANGED restVars

\* modifyLockCodeWithLockCode (lines 3793-3845), called by
\* userInputInteractionCompleted with the old lock code: it asks for the new one
modifyLockCodeWithLockCode(requestId, pr, oldLockCode, fault) ==
  /\ IF fault = "ui"
     THEN /\ m_pendingRequests' = Drop(m_pendingRequests, requestId)
          /\ uiInteractions' = uiInteractions \ {requestId}
          /\ lastReply' = Finished(requestId, "modifyLockCode", pr.callerPid, "",
                                   Error("InteractionError"))
     ELSE /\ m_pendingRequests' =
               Put(m_pendingRequests, requestId,
                   ModifyLockCodePending(pr.callerPid, pr.lockCodeTargetType, pr.lockCodeTarget,
                                         pr.userInteractionMode, <<oldLockCode>>))
          /\ UNCHANGED <<uiInteractions, lastReply>>
  /\ UNCHANGED <<bkdbVars, pluginVars, busy, m_collectionEncryptionKeys, jobs, deviceLockKey, lockVars, inFlightLimit>>

\* the collections and the standalone secrets a re-encryption job of the sweep can
\* fail for
SweepTargets ==
  CollectionNames \cup {generateHashedSecretName("standalone", n) : n \in SecretNames}

\* SecretsRequestQueue::initialise(lockCode) derives the bookkeeping lock key and the
\* device lock key from the one lock code
bkdbLockKeyOf(lockCode) == <<"bkdblock", lockCode>>
\* m_requestQueue->bkdbLockKey()
bkdbLockKey == bkdbLockKeyOf(deviceLockKey[2])

\* a failed m_bkdb->reencrypt after which the key data of the new lock code stay
restoredKeyDataKept(oldLockCode, newLockCode) == deviceLockKeyOf(newLockCode)
\* m_requestQueue->initialise(oldLockCode) after a failed m_bkdb->reencrypt
\* (lines 3924-3927)
restoredKeyData(oldLockCode, newLockCode) == deviceLockKeyOf(oldLockCode)

\* the device-lock collection's re-encryption job of the sweep is run for it
sweeps(collectionName, failing) ==
  /\ collectionName \in DOMAIN bkdbCollections
  /\ bkdbCollections[collectionName].usesDeviceLockKey
  /\ collectionName \notin failing

\* EncryptedStoragePluginWrapper::unlockCollectionAndReencrypt over the device-lock
\* collections of the encrypted storage plugin p (lines 3971-3991)
unlockCollectionAndReencrypt(p, oldKey, newKey, failing) ==
  [c \in DOMAIN pluginCollections[p] |->
     IF /\ sweeps(c, failing)
        /\ bkdbCollections[c].storagePluginName = p
        /\ bkdbCollections[c].storagePluginName = bkdbCollections[c].encryptionPluginName
        /\ pluginCollections[p][c].key = oldKey
     THEN [key |-> newKey, locked |-> FALSE]
     ELSE pluginCollections[p][c]]

\* StoragePlugin::reencryptSecrets over the device-lock collections of the storage
\* plugin p (lines 3992-4023) and over its device-lock standalone secrets
\* (lines 4027-4085)
reencryptSecrets(p, oldKey, newKey, failing) ==
  [k \in DOMAIN pluginSecrets[p] |->
     IF /\ pluginSecrets[p][k].key = oldKey
        /\ \/ /\ sweeps(k[1], failing)
              /\ bkdbCollections[k[1]].storagePluginName = p
              /\ bkdbCollections[k[1]].storagePluginName
                   # bkdbCollections[k[1]].encryptionPluginName
           \/ /\ k[1] = "standalone"
              /\ k \in DOMAIN bkdbSecrets
              /\ bkdbSecrets[k].usesDeviceLockKey
              /\ bkdbSecrets[k].encryptionPluginName \in m_encryptionPlugins
              /\ bkdbSecrets[k].storagePluginName \in m_storagePlugins
              /\ bkdbSecrets[k].storagePluginName = p
              /\ k[2] \notin failing
     THEN [pluginSecrets[p][k] EXCEPT !.key = newKey]
     ELSE pluginSecrets[p][k]]

\* the jobs of the sweep that fail, each logged with qCWarning "Failed to re-encrypt"
\* (lines 3985-3989, 4011-4015, 4076-4080): the failing ones for which a job is run
reencryptWarnings(failing) ==
  {c \in failing \cap DOMAIN bkdbCollections :
     /\ bkdbCollections[c].usesDeviceLockKey
     /\ IF bkdbCollections[c].storagePluginName = bkdbCollections[c].encryptionPluginName
        THEN bkdbCollections[c].storagePluginName \in m_encryptedStoragePlugins
        ELSE /\ bkdbCollections[c].encryptionPluginName \in m_encryptionPlugins
             /\ bkdbCollections[c].storagePluginName \in m_storagePlugins}
  \cup {h \in failing :
          /\ <<"standalone", h>> \in DOMAIN bkdbSecrets
          /\ bkdbSecrets[<<"standalone", h>>].usesDeviceLockKey
          /\ bkdbSecrets[<<"standalone", h>>].encryptionPluginName \in m_encryptionPlugins
          /\ bkdbSecrets[<<"standalone", h>>].storagePluginName \in m_storagePlugins}

\* modifyLockCodeWithLockCodes (lines 3848-4098), called by
\* userInputInteractionCompleted with the new lock code; the re-encryption jobs
\* are waited for one by one, so the whole sweep is a part of this step
modifyLockCodeWithLockCodes(requestId, pr, newLockCode, fault, failing) ==
  LET oldLockCode == pr.lockCodes[1]
      oldDeviceLockKey == deviceLockKey
      newDeviceLockKey == deviceLockKeyOf(newLockCode)
      result == IF pr.lockCodeTargetType = "ExtensionPlugin" THEN Error("InvalidExtensionPluginError")
                ELSE IF ~testLockCode(oldLockCode) THEN Error("SecretsDaemonLockedError")
                ELSE IF fault = "write" THEN DatabaseError
                ELSE Succeeded
  IN /\ m_pendingRequests' = Drop(m_pendingRequests, requestId)
     /\ uiInteractions' = uiInteractions \ {requestId}
     /\ lastReply' = [Finished(requestId, "modifyLockCode", pr.callerPid, "", result)
                        EXCEPT !.warnings = IF result = Succeeded
                                            THEN reencryptWarnings(failing) ELSE {}]
     /\ IF result = Succeeded
        THEN /\ deviceLockKey' = newDeviceLockKey
             /\ pluginCollections' =
                  [p \in DOMAIN pluginCollections |->
                     unlockCollectionAndReencrypt(p, oldDeviceLockKey, newDeviceLockKey, failing)]
             /\ pluginSecrets' =
                  [p \in DOMAIN pluginSecrets |->
                     reencryptSecrets(p, oldDeviceLockKey, newDeviceLockKey, failing)]
        ELSE IF result = DatabaseError
        THEN /\ failing = {}
             /\ deviceLockKey' = restoredKeyData(oldLockCode, newLockCode)
             /\ UNCHANGED pluginVars
        ELSE /\ failing = {}
             /\ UNCHANGED <<deviceLockKey, pluginVars>>
     /\ UNCHANGED <<bkdbVars, busy, m_collectionEncryptionKeys, jobs, lockVars>>

\* ------------------------------------------------- provideLockCode, forgetLockCode
\* the lock code forgetLockCode re-initialises the key data with (lines 4370-4374)
SentinelLockCode == "ffffffffffffffffffffffffffffffffffffffffffffffffffffffffffffffff"
\* m_requestQueue->noLockCode(): the device has a lock code
noLockCode == FALSE
\* m_bkdb->isLocked(&locked)
isLocked == bkdbSealKey # NoKey
\* the plugins masterLockPlugins and masterUnlockPlugins go over (lines 4382-4389)
MasterLockedPlugins == m_storagePlugins \cup m_encryptedStoragePlugins
\* the plugins lockSpecificPlugin and unlockSpecificPlugin look the target up in
SpecificPlugins == m_storagePlugins \cup m_encryptionPlugins \cup m_encryptedStoragePlugins
\* AuthenticationPlugin::supportsLocking()
supportsLocking(authenticationPluginName) == FALSE

\* the Result of the lock and unlock of a plugin target (lines 4252-4263 and
\* 4343-4354) when the target is not one of the storage and encryption plugins
authenticationPluginLockResult(lockCodeTarget) ==
  IF lockCodeTarget \in m_authenticationPlugins
  THEN IF ~supportsLocking(lockCodeTarget) THEN Error("OperationNotSupportedError")
       ELSE Succeeded
  ELSE Error("InvalidExtensionPluginError")

\* the ProvideLockCodeRequest record of m_pendingRequests
ProvideLockCodePending(callerPid, lockCodeTargetType, lockCodeTarget, uim) ==
  PendingRequest("ProvideLockCodeRequest", callerPid, "", "", "", uim, NoMeta)
    @@ [lockCodeTargetType |-> lockCodeTargetType, lockCodeTarget |-> lockCodeTarget,
        lockCodes |-> <<>>]

\* the Result of provideLockCode (lines 4100-4216)
provideLockCodeResult(callerPid, lockCodeTargetType, lockCodeTarget, fault) ==
  IF lockCodeTargetType \in {"StandaloneSecret", "Collection"}
  THEN Error("OperationNotSupportedError")
  ELSE IF ~applicationIsPlatformApplication(callerPid) THEN Error("PermissionsError")
  ELSE IF lockCodeTargetType = "BookkeepingDatabase" /\ lockCodeTarget # ""
  THEN Error("OperationNotSupportedError")
  ELSE IF lockCodeTargetType = "BookkeepingDatabase" /\ fault = "read" THEN DatabaseError
  ELSE IF lockCodeTargetType = "BookkeepingDatabase" /\ ~isLocked THEN Error("UnknownError")
  ELSE IF lockCodeTargetType = "BookkeepingDatabase" /\ noLockCode
  THEN IF bkdbSealKey = deviceLockKeyOf("") THEN Succeeded
       ELSE Error("IncorrectAuthenticationCodeError")
  ELSE IF fault = "ui" THEN Error("InteractionError")
  ELSE Pending

\* provideLockCode (lines 4100-4216)
provideLockCode(callerPid, lockCodeTargetType, lockCodeTarget, userInteractionMode, fault) ==
  /\ CanCall(fault)
  /\ fault \in {"none", "read", "ui"}
  /\ LET requestId == nextRequestId
         result == provideLockCodeResult(callerPid, lockCodeTargetType, lockCodeTarget, fault)
         initialised == /\ lockCodeTargetType = "BookkeepingDatabase"
                        /\ noLockCode
                        /\ result \in {Succeeded, Error("IncorrectAuthenticationCodeError")}
     IN /\ nextRequestId' = requestId + 1
        /\ requestsLeft' = requestsLeft - 1
        /\ deviceLockKey' = IF initialised THEN deviceLockKeyOf("") ELSE deviceLockKey
        /\ bkdbSealKey' = IF initialised /\ result = Succeeded THEN NoKey ELSE bkdbSealKey
        /\ IF result # Pending
           THEN /\ lastReply' = Return(requestId, "provideLockCode", callerPid, "", result)
                /\ UNCHANGED <<m_pendingRequests, uiInteractions>>
           ELSE /\ m_pendingRequests' =
                     Put(m_pendingRequests, requestId,
                         ProvideLockCodePending(callerPid, lockCodeTargetType, lockCodeTarget,
                                                userInteractionMode))
                /\ uiInteractions' = uiInteractions \cup {requestId}
                /\ UNCHANGED lastReply
  /\ UNCHANGED <<bkdbVars, pluginVars, busy, keyVars, jobs, standaloneVars, lockedPlugins,
                 inFlightLimit>>

\* provideLockCodeWithLockCode (lines 4218-4289), called by
\* userInputInteractionCompleted with the lock code; the unlock of the plugins is
\* waited for, so it is a part of this step
provideLockCodeWithLockCode(requestId, pr, lockCode) ==
  LET plugin == pr.lockCodeTargetType = "ExtensionPlugin"
      found == pr.lockCodeTarget \in SpecificPlugins
      unlocks == bkdbSealKey \in {NoKey, deviceLockKeyOf(lockCode)}
      result == IF plugin
                THEN IF found THEN Succeeded
                     ELSE authenticationPluginLockResult(pr.lockCodeTarget)
                ELSE IF unlocks THEN Succeeded
                ELSE Error("IncorrectAuthenticationCodeError")
  IN /\ m_pendingRequests' = Drop(m_pendingRequests, requestId)
     /\ uiInteractions' = uiInteractions \ {requestId}
     /\ lastReply' = Finished(requestId, "provideLockCode", pr.callerPid, "", result)
     /\ deviceLockKey' = IF plugin THEN deviceLockKey ELSE deviceLockKeyOf(lockCode)
     /\ bkdbSealKey' = IF ~plugin /\ unlocks THEN NoKey ELSE bkdbSealKey
     /\ lockedPlugins' = IF plugin
                         THEN IF found THEN lockedPlugins \ {pr.lockCodeTarget}
                              ELSE lockedPlugins
                         ELSE IF unlocks THEN lockedPlugins \ MasterLockedPlugins
                         ELSE lockedPlugins
     /\ UNCHANGED <<bkdbVars, pluginVars, busy, m_collectionEncryptionKeys, jobs>>

\* the Result of forgetLockCode (lines 4291-4392)
forgetLockCodeResult(callerPid, lockCodeTargetType, lockCodeTarget) ==
  IF lockCodeTargetType \in {"StandaloneSecret", "Collection"}
  THEN Error("OperationNotSupportedError")
  ELSE IF ~applicationIsPlatformApplication(callerPid) THEN Error("PermissionsError")
  ELSE IF lockCodeTargetType = "ExtensionPlugin"
  THEN IF lockCodeTarget \in SpecificPlugins THEN Succeeded
       ELSE authenticationPluginLockResult(lockCodeTarget)
  ELSE IF lockCodeTarget # "" THEN Error("OperationNotSupportedError")
  ELSE Succeeded

\* forgetLockCode (lines 4291-4392): the call returns its Result itself; the
\* lock of the plugins is waited for
forgetLockCode(callerPid, lockCodeTargetType, lockCodeTarget, userInteractionMode, fault) ==
  /\ CanCall(fault)
  /\ fault = "none"
  /\ LET requestId == nextRequestId
         result == forgetLockCodeResult(callerPid, lockCodeTargetType, lockCodeTarget)
         locks == result = Succeeded
         plugin == lockCodeTargetType = "ExtensionPlugin"
     IN /\ nextRequestId' = requestId + 1
        /\ requestsLeft' = requestsLeft - 1
        /\ deviceLockKey' = IF locks /\ ~plugin THEN deviceLockKeyOf(SentinelLockCode)
                            ELSE deviceLockKey
        /\ bkdbSealKey' = IF locks /\ ~plugin /\ ~isLocked THEN deviceLockKey
                          ELSE bkdbSealKey
        /\ lockedPlugins' = IF ~locks THEN lockedPlugins
                            ELSE IF plugin THEN lockedPlugins \cup {lockCodeTarget}
                            ELSE lockedPlugins \cup MasterLockedPlugins
        /\ lastReply' = Return(requestId, "forgetLockCode", callerPid, "", result)
  /\ UNCHANGED <<bkdbVars, pluginVars, busy, keyVars, m_pendingRequests, uiInteractions,
                 inFlightLimit,
                 jobs, standaloneVars>>

\* ------------------------------------------------- userInputInteractionCompleted
\* the parameters setCollectionSecretGetAuthenticationCode stores with a
\* SetCollectionSecretRequest (lines 1146-1157 and 1216-1227)
SetCollectionSecretRequestParameters == 11
\* the parameters userInputInteractionCompleted wants of one (line 4464)
SetCollectionSecretRequestParametersExpected == 12

UserCanceled == Error("InteractionViewUserCanceledError")

\* a completion that answers every failed interaction with UnknownError
returnResultUnknownError(result) == Error("UnknownError")

\* Result returnResult = result (line 4410): what a failed interaction finishes
\* the request with
returnResult(result) == result

\* userInputInteractionCompleted (lines 4395-4709): the authentication plugin's
\* signal for the interaction of requestId, with the Result and the user's input
userInputInteractionCompleted(requestId, result, userInput, fault) ==
  /\ requestId \in uiInteractions
  /\ UNCHANGED <<m_collectionLockTimers, timers, nextRequestId, requestsLeft, inFlightLimit>>
  /\ IF result.code # "Succeeded"
     THEN /\ fault = "none"
          /\ uiInteractions' = uiInteractions \ {requestId}
          /\ lastReply' = Finished(requestId,
                                   IF requestId \in DOMAIN m_pendingRequests
                                   THEN m_pendingRequests[requestId].requestType ELSE "",
                                   IF requestId \in DOMAIN m_pendingRequests
                                   THEN m_pendingRequests[requestId].callerPid ELSE "",
                                   IF requestId \in DOMAIN m_pendingRequests
                                   THEN m_pendingRequests[requestId].collectionName ELSE "",
                                   returnResult(result))
          /\ UNCHANGED <<bkdbVars, busy, m_collectionEncryptionKeys, m_pendingRequests, jobs,
                         pluginVars, deviceLockKey, lockVars>>
     ELSE IF requestId \notin DOMAIN m_pendingRequests
     THEN /\ fault = "none"
          /\ uiInteractions' = uiInteractions \ {requestId}
          /\ lastReply' = Finished(requestId, "", "", "", Error("UnknownError"))
          /\ UNCHANGED <<bkdbVars, busy, m_collectionEncryptionKeys, m_pendingRequests, jobs,
                         pluginVars, deviceLockKey, lockVars>>
     ELSE IF m_pendingRequests[requestId].requestType = "ProvideLockCodeRequest"
     THEN /\ userInput \in LockCodes
          /\ fault = "none"
          /\ provideLockCodeWithLockCode(requestId, m_pendingRequests[requestId], userInput)
          /\ UNCHANGED pluginVars
     ELSE IF m_pendingRequests[requestId].requestType = "ModifyLockCodeRequest"
     THEN /\ userInput \in LockCodes
          /\ IF Len(m_pendingRequests[requestId].lockCodes) = 0
             THEN /\ fault \in {"none", "ui"}
                  /\ modifyLockCodeWithLockCode(requestId, m_pendingRequests[requestId],
                                                userInput, fault)
             ELSE /\ fault \in {"none", "write"}
                  /\ \E failing \in SUBSET SweepTargets :
                       modifyLockCodeWithLockCodes(requestId, m_pendingRequests[requestId],
                                                   userInput, fault, failing)
     ELSE LET pr == m_pendingRequests[requestId]
          IN /\ UNCHANGED <<pluginVars, deviceLockKey, lockVars>>
             /\ CASE pr.requestType = "CreateCustomLockCollectionRequest" ->
                    /\ userInput \in NewPassphrases
                    /\ fault \in {"none", "read", "write"}
                    /\ createCustomLockCollectionWithAuthenticationCode(requestId, pr,
                                                                        userInput, fault)
                    /\ UNCHANGED m_collectionEncryptionKeys
               [] pr.requestType = "SetCollectionUserInputSecretRequest" ->
                    /\ userInput \in SecretData
                    /\ fault \in {"none", "write", "ui"}
                    /\ setCollectionSecretGetAuthenticationCode(requestId, pr.callerPid,
                         pr.collectionName, pr.secretName, userInput,
                         pr.userInteractionMode, pr.meta, fault, FALSE)
                    /\ UNCHANGED <<bkdbCollections, busy>>
               [] pr.requestType = "SetCollectionSecretRequest" ->
                    /\ userInput \in Passphrases
                    /\ fault = "none"
                    /\ IF SetCollectionSecretRequestParameters
                            # SetCollectionSecretRequestParametersExpected
                       THEN /\ m_pendingRequests' = Drop(m_pendingRequests, requestId)
                            /\ uiInteractions' = uiInteractions \ {requestId}
                            /\ lastReply' = Finished(requestId, "setCollectionSecret",
                                                     pr.callerPid, pr.collectionName,
                                                     Error("UnknownError"))
                            /\ UNCHANGED <<bkdbVars, busy, m_collectionEncryptionKeys, jobs>>
                       ELSE setCollectionSecretWithAuthenticationCode(requestId, pr,
                                                                      userInput)
               [] pr.requestType = "GetCollectionSecretRequest" ->
                    /\ userInput \in Passphrases
                    /\ fault = "none"
                    /\ getCollectionSecretWithAuthenticationCode(requestId, pr, userInput)
                    /\ UNCHANGED m_collectionEncryptionKeys
               [] pr.requestType = "GetStandaloneSecretRequest" ->
                    /\ userInput \in Passphrases
                    /\ fault = "none"
                    /\ getStandaloneSecretWithAuthenticationCode(requestId, pr, userInput)
                    /\ UNCHANGED m_collectionEncryptionKeys
               [] pr.requestType = "SetStandaloneDeviceLockUserInputSecretRequest" ->
                    /\ userInput \in SecretData
                    /\ fault \in {"none", "write"}
                    /\ writeStandaloneDeviceLockSecret(requestId, pr.callerPid,
                         pr.secretName, userInput, pr.meta, pr.found, fault, FALSE)
                    /\ m_pendingRequests' = Drop(m_pendingRequests, requestId)
                    /\ uiInteractions' = uiInteractions \ {requestId}
                    /\ UNCHANGED <<bkdbCollections, busy, m_collectionEncryptionKeys>>
               [] pr.requestType = "FindCollectionSecretsRequest" ->
                    /\ userInput \in Passphrases
                    /\ fault = "none"
                    /\ findCollectionSecretsWithAuthenticationCode(requestId, pr, userInput)
                    /\ UNCHANGED m_collectionEncryptionKeys
               [] pr.requestType = "DeleteCollectionSecretRequest" ->
                    /\ userInput \in Passphrases
                    /\ fault = "none"
                    /\ deleteCollectionSecretWithAuthenticationCode(requestId, pr, userInput)
                    /\ UNCHANGED m_collectionEncryptionKeys
  /\ UNCHANGED standaloneVars

\* ------------------------------------------------- relock timers
\* a timeout slot that drops the timer entry and leaves the key in the cache
timeoutRelockCollectionKeepsKey(timer) ==
  /\ timer \in timers
  /\ timers' = timers \ {timer}
  /\ LET hit == {c \in DOMAIN m_collectionLockTimers : m_collectionLockTimers[c] = timer}
     IN m_collectionLockTimers' =
          [c \in DOMAIN m_collectionLockTimers \ hit |-> m_collectionLockTimers[c]]
  /\ UNCHANGED <<bkdbVars, pluginVars, busy, m_pendingRequests, uiInteractions, jobs,
                 nextRequestId, requestsLeft, lastReply, m_collectionEncryptionKeys>>
  /\ UNCHANGED restVars

\* timeoutRelockCollection (lines 4724-4736): the slot of a timer's timeout signal
timeoutRelockCollection(timer) ==
  /\ timer \in timers
  /\ timers' = timers \ {timer}
  /\ LET hit == {c \in DOMAIN m_collectionLockTimers : m_collectionLockTimers[c] = timer}
     IN /\ m_collectionEncryptionKeys' =
             [c \in DOMAIN m_collectionEncryptionKeys \ hit |-> m_collectionEncryptionKeys[c]]
        /\ m_collectionLockTimers' =
             [c \in DOMAIN m_collectionLockTimers \ hit |-> m_collectionLockTimers[c]]
  /\ UNCHANGED <<bkdbVars, pluginVars, busy, m_pendingRequests, uiInteractions, jobs,
                 nextRequestId, requestsLeft, lastReply>>
  /\ UNCHANGED restVars

\* ------------------------------------------------- the worker pool
\* the plugin function of a dispatched job, run on a pool thread
RunPlugin(j) ==
  LET p == j.meta.storagePluginName
      fused == j.meta.storagePluginName = j.meta.encryptionPluginName
      h == generateHashedSecretName(j.collectionName, j.secretName)
  IN CASE j.fn = "createCollection" ->
            createCollectionWrapper(p, j.collectionName, IF fused THEN j.key ELSE NoKey)
       [] j.fn = "removeCollection" -> removeCollectionWrapper(p, j.collectionName)
       [] j.fn = "deriveKeyFromCode" -> deriveKeyFromCodeWrapper(p, j.key)
       [] j.fn = "storeSecret" ->
            IF fused THEN unlockCollectionAndStoreSecret(p, j.collectionName, h, j.data, j.key)
            ELSE encryptAndStoreSecret(p, j.collectionName, h, j.data, j.key)
       [] j.fn = "readSecret" ->
            IF fused THEN unlockCollectionAndReadSecret(p, j.collectionName, h, j.key)
            ELSE getAndDecryptSecret(p, j.collectionName, h, j.key)
       [] j.fn = "findSecrets" ->
            IF fused THEN unlockAndFindSecrets(p, j.collectionName, j.key)
            ELSE findAndDecryptSecretNames(p, j.collectionName, j.key)
       [] j.fn = "accessSecret" -> accessSecret(p, j.collectionName, h, j.key)
       [] j.fn = "removeSecret" ->
            IF fused THEN unlockCollectionAndRemoveSecret(p, j.collectionName, h, j.key)
            ELSE removeSecret(p, j.collectionName, h)
       [] j.fn = "storeStandaloneSecret" -> storeStandaloneSecret(p, h, j.data, j.key)

WorkerRun(requestId, pluginWorks) ==
  /\ requestId \in DOMAIN jobs
  /\ ~jobs[requestId].ran
  /\ LET j == jobs[requestId]
         p == j.meta.storagePluginName
         out == IF pluginWorks THEN RunPlugin(j) ELSE PluginFail(p, "PluginError")
     IN /\ pluginCollections' = [pluginCollections EXCEPT ![p] = out.collections]
        /\ pluginSecrets' = [pluginSecrets EXCEPT ![p] = out.secrets]
        /\ jobs' = [jobs EXCEPT ![requestId].ran = TRUE, ![requestId].result = out.result,
                                ![requestId].outKey = out.key, ![requestId].secret = out.secret]
  /\ UNCHANGED <<bkdbVars, busy, keyVars, m_pendingRequests, uiInteractions,
                 nextRequestId, requestsLeft, lastReply>>
  /\ UNCHANGED restVars

Next ==
  \/ \E callerPid \in Pids, collectionName \in CollectionNames, pp \in PluginPairs,
        accessControlMode \in AccessControlModes, fault \in {"none", "read", "write"} :
       createDeviceLockCollection(callerPid, collectionName, pp[1], pp[2],
                                  "DeviceLockKeepUnlocked", accessControlMode, fault)
  \/ \E requestId \in 1..MaxRequests, fault \in Faults :
       createDeviceLockCollectionFinished(requestId, fault)
  \/ \E callerPid \in Pids, collectionName \in CollectionNames, pp \in PluginPairs,
        uim \in UserInteractionModes, fault \in {"none", "ui"} :
       createCustomLockCollection(callerPid, collectionName, pp[1], pp[2], "auth",
                                  "CustomLockTimoutRelock", "OwnerOnlyMode", uim, fault)
  \/ \E requestId \in 1..MaxRequests : createCustomLockCollectionKeyDerived(requestId)
  \/ \E requestId \in 1..MaxRequests, fault \in Faults :
       createCustomLockCollectionFinished(requestId, fault)
  \/ \E callerPid \in Pids, collectionName \in CollectionNames, fault \in {"none", "read"} :
       deleteCollection(callerPid, collectionName, "SystemInteraction", fault)
  \/ \E requestId \in 1..MaxRequests, fault \in Faults :
       deleteCollectionFinished(requestId, fault)
  \/ \E callerPid \in Pids, collectionName \in CollectionNames, secretName \in SecretNames,
        data \in SecretData, uiParamsValid \in BOOLEAN,
        fault \in {"none", "write", "ui"} :
       setCollectionSecret(callerPid, collectionName, secretName,
                           IF uiParamsValid THEN "" ELSE data, uiParamsValid,
                           "SystemInteraction", fault)
  \/ \E requestId \in 1..MaxRequests, fault \in Faults :
       setCollectionSecretFinished(requestId, fault)
  \/ \E callerPid \in Pids, collectionName \in CollectionNames, secretName \in SecretNames,
        fault \in {"none", "read"} :
       getCollectionSecret(callerPid, collectionName, secretName, "SystemInteraction", fault)
  \/ \E requestId \in 1..MaxRequests : getCollectionSecretKeyDerived(requestId)
  \/ \E requestId \in 1..MaxRequests : getCollectionSecretFinished(requestId)
  \/ \E callerPid \in Pids, collectionName \in CollectionNames, secretName \in SecretNames,
        fault \in {"none", "ui"} :
       deleteCollectionSecret(callerPid, collectionName, secretName, "SystemInteraction",
                              fault)
  \/ \E requestId \in 1..MaxRequests, fault \in Faults :
       deleteCollectionSecretKeyDerived(requestId, fault)
  \/ \E requestId \in 1..MaxRequests, fault \in Faults :
       deleteCollectionSecretFinished(requestId, fault)
  \/ \E requestId \in 1..MaxRequests, result \in {Succeeded, UserCanceled},
        userInput \in Passphrases \cup SecretData, fault \in {"none", "read", "write", "ui"} :
       userInputInteractionCompleted(requestId, result, userInput, fault)
  \/ \E requestId \in 1..MaxRequests, pluginWorks \in BOOLEAN :
       WorkerRun(requestId, pluginWorks)
  \/ \E timer \in 1..MaxRequests : timeoutRelockCollection(timer)

Spec == Init /\ [][Next]_vars

\* ------------------------------------------------- a collection changing hands
\* The clients of this specification send one request more than those of Spec,
\* and only these: the owner of the persisted collection reads its secret and
\* deletes the collection, the other application creates a device-lock
\* collection of the same name and stores a secret in it. Nothing fails.
MaxRequestsChangingHands == 4

SplitPersisted ==
  Persisted(Meta("appA", FALSE, "store", "enc", "CustomLockTimoutRelock", "OwnerOnlyMode"))

InitChangingHands ==
  /\ Constructed({SplitPersisted})
  /\ requestsLeft = MaxRequestsChangingHands
  /\ inFlightLimit = MaxInFlight

NextChangingHands ==
  \/ \E secretName \in SecretNames :
       getCollectionSecret("appA", "c1", secretName, "SystemInteraction", "none")
  \/ \E requestId \in 1..MaxRequestsChangingHands : getCollectionSecretKeyDerived(requestId)
  \/ \E requestId \in 1..MaxRequestsChangingHands : getCollectionSecretFinished(requestId)
  \/ deleteCollection("appA", "c1", "SystemInteraction", "none")
  \/ \E requestId \in 1..MaxRequestsChangingHands :
       deleteCollectionFinished(requestId, "none")
  \/ createDeviceLockCollection("appB", "c1", "store", "enc", "DeviceLockKeepUnlocked",
                                "OwnerOnlyMode", "none")
  \/ \E requestId \in 1..MaxRequestsChangingHands :
       createDeviceLockCollectionFinished(requestId, "none")
  \/ \E secretName \in SecretNames, data \in SecretData :
       setCollectionSecret("appB", "c1", secretName, data, FALSE, "SystemInteraction", "none")
  \/ \E requestId \in 1..MaxRequestsChangingHands :
       setCollectionSecretFinished(requestId, "none")
  \/ \E requestId \in 1..MaxRequestsChangingHands, userInput \in Passphrases :
       userInputInteractionCompleted(requestId, Succeeded, userInput, "none")
  \/ \E requestId \in 1..MaxRequestsChangingHands : WorkerRun(requestId, TRUE)
  \/ \E timer \in 1..MaxRequestsChangingHands : timeoutRelockCollection(timer)

SpecChangingHands == InitChangingHands /\ [][NextChangingHands]_vars

\* ------------------------------------------------- standalone secrets
\* The clients of this specification only read the standalone secret an earlier
\* run of the daemon stored under a custom lock with a relock timeout.
MaxRequestsStandalone == 4

PersistedStandalone(meta) ==
  LET h == generateHashedSecretName("standalone", "s1")
      p == meta.storagePluginName
  IN [collections |-> <<>>,
      secrets |-> (<<"standalone", h>> :> meta),
      pluginCollections |-> [q \in StoragePluginNames |-> <<>>],
      pluginSecrets |->
        [q \in StoragePluginNames |->
           IF q = p
           THEN (<<"standalone", h>> :> [data |-> "d1", key |-> PersistedSecretKey])
           ELSE <<>>]]

InitStandalone ==
  /\ Constructed({PersistedStandalone(m) : m \in PersistedMetas})
  /\ requestsLeft = MaxRequestsStandalone
  /\ inFlightLimit = MaxInFlight

NextStandalone ==
  \/ \E callerPid \in Pids, collectionName \in {"", "c1"}, secretName \in SecretNames \cup {""},
        uim \in UserInteractionModes, fault \in {"none", "read", "ui"} :
       getStandaloneSecret(callerPid, collectionName, secretName, uim, fault)
  \/ \E requestId \in 1..MaxRequestsStandalone : getStandaloneSecretKeyDerived(requestId)
  \/ \E requestId \in 1..MaxRequestsStandalone : getStandaloneSecretFinished(requestId)
  \/ \E requestId \in 1..MaxRequestsStandalone, result \in {Succeeded, UserCanceled},
        userInput \in Passphrases :
       userInputInteractionCompleted(requestId, result, userInput, "none")
  \/ \E requestId \in 1..MaxRequestsStandalone, pluginWorks \in BOOLEAN :
       WorkerRun(requestId, pluginWorks)
  \/ \E timer \in 1..MaxRequestsStandalone : timeoutRelockSecret(timer)

SpecStandalone == InitStandalone /\ [][NextStandalone]_vars

\* ------------------------------------------------- the master lock change
\* The clients of this specification create a device-lock collection, store and
\* read a secret in it, and the settings application changes the master lock
\* code. No plugin call fails, except the re-encryption jobs of the sweep.
MaxRequestsModifyLockCode == 5

InitModifyLockCode ==
  /\ Constructed({Empty})
  /\ requestsLeft = MaxRequestsModifyLockCode
  /\ inFlightLimit = MaxInFlight

NextModifyLockCode ==
  \/ \E pp \in PluginPairs :
       createDeviceLockCollection("appA", "c1", pp[1], pp[2], "DeviceLockKeepUnlocked",
                                  "OwnerOnlyMode", "none")
  \/ \E requestId \in 1..MaxRequestsModifyLockCode :
       createDeviceLockCollectionFinished(requestId, "none")
  \/ \E secretName \in SecretNames, data \in SecretData :
       setCollectionSecret("appA", "c1", secretName, data, FALSE, "SystemInteraction", "none")
  \/ \E requestId \in 1..MaxRequestsModifyLockCode :
       setCollectionSecretFinished(requestId, "none")
  \/ \E secretName \in SecretNames :
       getCollectionSecret("appA", "c1", secretName, "SystemInteraction", "none")
  \/ \E requestId \in 1..MaxRequestsModifyLockCode : getCollectionSecretFinished(requestId)
  \/ \E callerPid \in {"appA", "settings"},
        lockCodeTargetType \in {"BookkeepingDatabase", "Collection"},
        lockCodeTarget \in {"", "c1"}, fault \in {"none", "ui"} :
       modifyLockCode(callerPid, lockCodeTargetType, lockCodeTarget, "SystemInteraction", fault)
  \/ \E requestId \in 1..MaxRequestsModifyLockCode, result \in {Succeeded, UserCanceled},
        userInput \in LockCodes, fault \in {"none", "write", "ui"} :
       userInputInteractionCompleted(requestId, result, userInput, fault)
  \/ \E requestId \in 1..MaxRequestsModifyLockCode : WorkerRun(requestId, TRUE)

SpecModifyLockCode == InitModifyLockCode /\ [][NextModifyLockCode]_vars

\* ------------------------------------------------- storing and reading back
\* The owner of this specification's collections sends a request only when the
\* one before it was answered, and writes one of two values. No plugin call and
\* no database access fails.
MaxRequestsRoundTrip == 5
RoundTripData == {"d1", "d2"}

\* every request sent so far was answered
Answered == jobs = <<>> /\ uiInteractions = {}

InitRoundTrip ==
  /\ Constructed({Empty} \cup {Persisted(m) : m \in PersistedMetas})
  /\ requestsLeft = MaxRequestsRoundTrip
  /\ inFlightLimit = MaxInFlight

NextRoundTrip ==
  \/ /\ Answered
     /\ \E pp \in PluginPairs :
          createDeviceLockCollection("appA", "c1", pp[1], pp[2], "DeviceLockKeepUnlocked",
                                     "OwnerOnlyMode", "none")
  \/ \E requestId \in 1..MaxRequestsRoundTrip :
       createDeviceLockCollectionFinished(requestId, "none")
  \/ /\ Answered
     /\ \E secretName \in SecretNames, data \in RoundTripData, uiParamsValid \in BOOLEAN :
          setCollectionSecret("appA", "c1", secretName, IF uiParamsValid THEN "" ELSE data,
                              uiParamsValid, "SystemInteraction", "none")
  \/ \E requestId \in 1..MaxRequestsRoundTrip : setCollectionSecretFinished(requestId, "none")
  \/ /\ Answered
     /\ \E secretName \in SecretNames :
          getCollectionSecret("appA", "c1", secretName, "SystemInteraction", "none")
  \/ \E requestId \in 1..MaxRequestsRoundTrip : getCollectionSecretKeyDerived(requestId)
  \/ \E requestId \in 1..MaxRequestsRoundTrip : getCollectionSecretFinished(requestId)
  \/ \E requestId \in 1..MaxRequestsRoundTrip, userInput \in Passphrases \cup SecretData :
       userInputInteractionCompleted(requestId, Succeeded, userInput, "none")
  \/ \E requestId \in 1..MaxRequestsRoundTrip : WorkerRun(requestId, TRUE)
  \/ \E timer \in 1..MaxRequestsRoundTrip : timeoutRelockCollection(timer)

SpecRoundTrip == InitRoundTrip /\ [][NextRoundTrip]_vars

\* ------------------------------------------------- collections found locked
\* The daemon of this specification starts over a collection an earlier run
\* left behind, custom-lock or device-lock, and its clients work on the
\* collection's secret in either interaction mode.
MaxRequestsKeyDecision == 3

PersistedDeviceLockMetas ==
  { Meta("appA", TRUE, pp[1], pp[2], "DeviceLockKeepUnlocked", "OwnerOnlyMode") :
      pp \in PluginPairs }
PersistedDeviceLock(meta) ==
  LET st == Persisted(meta)
      fused == meta.storagePluginName = meta.encryptionPluginName
  IN [st EXCEPT
        !.pluginCollections =
          [q \in StoragePluginNames |->
             [c \in DOMAIN st.pluginCollections[q] |->
                [key |-> IF fused THEN InitialDeviceLockKey ELSE NoKey, locked |-> fused]]],
        !.pluginSecrets =
          [q \in StoragePluginNames |->
             [k \in DOMAIN st.pluginSecrets[q] |->
                [data |-> "d1", key |-> IF fused THEN NoKey ELSE InitialDeviceLockKey]]]]

InitKeyDecision ==
  /\ Constructed({Persisted(m) : m \in PersistedMetas}
                   \cup {PersistedDeviceLock(m) : m \in PersistedDeviceLockMetas})
  /\ requestsLeft = MaxRequestsKeyDecision
  /\ inFlightLimit = MaxInFlight

NextKeyDecision ==
  \/ \E callerPid \in Pids, secretName \in SecretNames, data \in SecretData,
        uiParamsValid \in BOOLEAN, uim \in UserInteractionModes, fault \in {"none", "ui"} :
       setCollectionSecret(callerPid, "c1", secretName, IF uiParamsValid THEN "" ELSE data,
                           uiParamsValid, uim, fault)
  \/ \E requestId \in 1..MaxRequestsKeyDecision :
       setCollectionSecretFinished(requestId, "none")
  \/ \E callerPid \in Pids, secretName \in SecretNames, uim \in UserInteractionModes,
        fault \in {"none", "ui"} :
       getCollectionSecret(callerPid, "c1", secretName, uim, fault)
  \/ \E requestId \in 1..MaxRequestsKeyDecision : getCollectionSecretKeyDerived(requestId)
  \/ \E requestId \in 1..MaxRequestsKeyDecision : getCollectionSecretFinished(requestId)
  \/ \E callerPid \in Pids, secretName \in SecretNames, uim \in UserInteractionModes,
        fault \in {"none", "ui"} :
       deleteCollectionSecret(callerPid, "c1", secretName, uim, fault)
  \/ \E requestId \in 1..MaxRequestsKeyDecision :
       deleteCollectionSecretKeyDerived(requestId, "none")
  \/ \E requestId \in 1..MaxRequestsKeyDecision :
       deleteCollectionSecretFinished(requestId, "none")
  \/ \E requestId \in 1..MaxRequestsKeyDecision, result \in {Succeeded, UserCanceled},
        userInput \in Passphrases \cup SecretData, fault \in {"none", "ui"} :
       userInputInteractionCompleted(requestId, result, userInput, fault)
  \/ \E requestId \in 1..MaxRequestsKeyDecision : WorkerRun(requestId, TRUE)
  \/ \E timer \in 1..MaxRequestsKeyDecision : timeoutRelockCollection(timer)

SpecKeyDecision == InitKeyDecision /\ [][NextKeyDecision]_vars

\* ------------------------------------------------- requests that are answered
\* The clients of this specification send the requests of Spec, one fewer. The
\* thread pool runs every job it was given, the authentication plugin completes
\* every interaction it began, and the event loop delivers every watcher's
\* finished signal.
MaxRequestsFair == 2

InitFair ==
  /\ Constructed({Empty} \cup {Persisted(m) : m \in PersistedMetas})
  /\ requestsLeft = MaxRequestsFair
  /\ inFlightLimit = MaxInFlight

Fairness ==
  \A requestId \in 1..MaxRequestsFair :
    /\ WF_vars(\E pluginWorks \in BOOLEAN : WorkerRun(requestId, pluginWorks))
    /\ WF_vars(\E result \in {Succeeded, UserCanceled},
                  userInput \in Passphrases \cup SecretData,
                  fault \in {"none", "read", "write", "ui"} :
                 userInputInteractionCompleted(requestId, result, userInput, fault))
    /\ WF_vars(\E fault \in Faults : createDeviceLockCollectionFinished(requestId, fault))
    /\ WF_vars(createCustomLockCollectionKeyDerived(requestId))
    /\ WF_vars(\E fault \in Faults : createCustomLockCollectionFinished(requestId, fault))
    /\ WF_vars(\E fault \in Faults : deleteCollectionFinished(requestId, fault))
    /\ WF_vars(\E fault \in Faults : setCollectionSecretFinished(requestId, fault))
    /\ WF_vars(getCollectionSecretKeyDerived(requestId))
    /\ WF_vars(getCollectionSecretFinished(requestId))
    /\ WF_vars(\E fault \in Faults : deleteCollectionSecretKeyDerived(requestId, fault))
    /\ WF_vars(\E fault \in Faults : deleteCollectionSecretFinished(requestId, fault))

SpecFair == InitFair /\ [][Next]_vars /\ Fairness

\* ------------------------------------------------- the validation preamble
\* Calls of two applications on collections of appA under each access control
\* mode, with well-formed, empty and reserved names.
MaxRequestsAccessControl == 2
AllAccessControlModes == {"OwnerOnlyMode", "NoAccessControlMode", "SystemAccessControlMode"}
AccessControlNames == {"", "standalone", "Standalone", "c1"}
AccessControlSecretNames == {"", "s1"}

PersistedAccessControlMetas ==
  { Meta("appA", FALSE, pp[1], pp[2], "CustomLockTimoutRelock", accessControlMode) :
      pp \in PluginPairs, accessControlMode \in AllAccessControlModes }

InitAccessControl ==
  /\ Constructed({Empty} \cup {Persisted(m) : m \in PersistedAccessControlMetas})
  /\ requestsLeft = MaxRequestsAccessControl
  /\ inFlightLimit = MaxInFlight

NextAccessControl ==
  \/ \E callerPid \in Pids, collectionName \in AccessControlNames, pp \in PluginPairs,
        accessControlMode \in AllAccessControlModes :
       createDeviceLockCollection(callerPid, collectionName, pp[1], pp[2],
                                  "DeviceLockKeepUnlocked", accessControlMode, "none")
  \/ \E requestId \in 1..MaxRequestsAccessControl :
       createDeviceLockCollectionFinished(requestId, "none")
  \/ \E callerPid \in Pids, collectionName \in AccessControlNames, fault \in {"none", "read"} :
       deleteCollection(callerPid, collectionName, "SystemInteraction", fault)
  \/ \E requestId \in 1..MaxRequestsAccessControl :
       deleteCollectionFinished(requestId, "none")
  \/ \E callerPid \in Pids, collectionName \in AccessControlNames,
        secretName \in AccessControlSecretNames, uim \in UserInteractionModes,
        fault \in {"none", "read"} :
       setCollectionSecret(callerPid, collectionName, secretName, "d1", FALSE, uim, fault)
  \/ \E requestId \in 1..MaxRequestsAccessControl :
       setCollectionSecretFinished(requestId, "none")
  \/ \E callerPid \in Pids, collectionName \in AccessControlNames,
        secretName \in AccessControlSecretNames, uim \in UserInteractionModes,
        fault \in {"none", "read"} :
       getCollectionSecret(callerPid, collectionName, secretName, uim, fault)
  \/ \E requestId \in 1..MaxRequestsAccessControl : getCollectionSecretKeyDerived(requestId)
  \/ \E requestId \in 1..MaxRequestsAccessControl : getCollectionSecretFinished(requestId)
  \/ \E callerPid \in Pids, collectionName \in AccessControlNames, filterEmpty \in BOOLEAN,
        uim \in UserInteractionModes, fault \in {"none", "read"} :
       findCollectionSecrets(callerPid, collectionName, filterEmpty, uim, fault)
  \/ \E requestId \in 1..MaxRequestsAccessControl : findCollectionSecretsKeyDerived(requestId)
  \/ \E requestId \in 1..MaxRequestsAccessControl : findCollectionSecretsFinished(requestId)
  \/ \E callerPid \in Pids, collectionName \in AccessControlNames,
        secretName \in AccessControlSecretNames, uim \in UserInteractionModes,
        fault \in {"none", "read"} :
       deleteCollectionSecret(callerPid, collectionName, secretName, uim, fault)
  \/ \E requestId \in 1..MaxRequestsAccessControl :
       deleteCollectionSecretKeyDerived(requestId, "none")
  \/ \E requestId \in 1..MaxRequestsAccessControl :
       deleteCollectionSecretFinished(requestId, "none")
  \/ \E callerPid \in Pids, collectionName \in AccessControlNames,
        secretName \in AccessControlSecretNames, fault \in {"none", "read", "write"} :
       setCollectionSecretMetadata(callerPid, collectionName, secretName, fault)
  \/ \E callerPid \in Pids, collectionName \in AccessControlNames,
        secretName \in AccessControlSecretNames, fault \in {"none", "write"} :
       deleteCollectionSecretMetadata(callerPid, collectionName, secretName, fault)
  \/ \E requestId \in 1..MaxRequestsAccessControl, result \in {Succeeded, UserCanceled},
        userInput \in Passphrases :
       userInputInteractionCompleted(requestId, result, userInput, "none")
  \/ \E requestId \in 1..MaxRequestsAccessControl : WorkerRun(requestId, TRUE)
  \/ \E timer \in 1..MaxRequestsAccessControl : timeoutRelockCollection(timer)

SpecAccessControl == InitAccessControl /\ [][NextAccessControl]_vars

\* ------------------------------------------------- the lock code operations
\* The three lock code calls of an application and of the platform application
\* on the bookkeeping database and on plugins.
MaxRequestsLockCode == 3
LockCodeCallers == {"appA", "settings"}
LockCodeTargetTypes == {"BookkeepingDatabase", "ExtensionPlugin", "Collection"}
LockCodeTargets == {"", "store", "auth"}

InitLockCode ==
  /\ Constructed({Empty})
  /\ requestsLeft = MaxRequestsLockCode
  /\ inFlightLimit = MaxInFlight

NextLockCode ==
  \/ \E callerPid \in LockCodeCallers, lockCodeTargetType \in LockCodeTargetTypes,
        lockCodeTarget \in LockCodeTargets, fault \in {"none", "ui"} :
       modifyLockCode(callerPid, lockCodeTargetType, lockCodeTarget, "SystemInteraction", fault)
  \/ \E callerPid \in LockCodeCallers, lockCodeTargetType \in LockCodeTargetTypes,
        lockCodeTarget \in LockCodeTargets, fault \in {"none", "read", "ui"} :
       provideLockCode(callerPid, lockCodeTargetType, lockCodeTarget, "SystemInteraction",
                       fault)
  \/ \E callerPid \in LockCodeCallers, lockCodeTargetType \in LockCodeTargetTypes,
        lockCodeTarget \in LockCodeTargets :
       forgetLockCode(callerPid, lockCodeTargetType, lockCodeTarget, "SystemInteraction",
                      "none")
  \/ \E requestId \in 1..MaxRequestsLockCode, result \in {Succeeded, UserCanceled},
        userInput \in LockCodes, fault \in {"none", "write", "ui"} :
       userInputInteractionCompleted(requestId, result, userInput, fault)

SpecLockCode == InitLockCode /\ [][NextLockCode]_vars

\* ------------------------------------------------- requests resumed late
\* the owner's requests on a persisted collection, up to three of them in flight
\* at a time: one can wait at its prompt while another deletes the collection
MaxRequestsSuspended == 3
MaxInFlightSuspended == 3

InitSuspended ==
  /\ Constructed({Persisted(m) : m \in PersistedMetas}
                   \cup {PersistedDeviceLock(m) : m \in PersistedDeviceLockMetas})
  /\ requestsLeft = MaxRequestsSuspended
  /\ inFlightLimit = MaxInFlightSuspended

NextSuspended ==
  \/ deleteCollection("appA", "c1", "SystemInteraction", "none")
  \/ \E requestId \in 1..MaxRequestsSuspended : deleteCollectionFinished(requestId, "none")
  \/ \E uiParamsValid \in BOOLEAN :
       setCollectionSecret("appA", "c1", "s1", IF uiParamsValid THEN "" ELSE "d1",
                           uiParamsValid, "SystemInteraction", "none")
  \/ \E requestId \in 1..MaxRequestsSuspended : setCollectionSecretFinished(requestId, "none")
  \/ getCollectionSecret("appA", "c1", "s1", "SystemInteraction", "none")
  \/ \E requestId \in 1..MaxRequestsSuspended : getCollectionSecretKeyDerived(requestId)
  \/ \E requestId \in 1..MaxRequestsSuspended : getCollectionSecretFinished(requestId)
  \/ findCollectionSecrets("appA", "c1", FALSE, "SystemInteraction", "none")
  \/ \E requestId \in 1..MaxRequestsSuspended : findCollectionSecretsKeyDerived(requestId)
  \/ \E requestId \in 1..MaxRequestsSuspended : findCollectionSecretsFinished(requestId)
  \/ \E requestId \in 1..MaxRequestsSuspended, userInput \in Passphrases \cup SecretData :
       userInputInteractionCompleted(requestId, Succeeded, userInput, "none")
  \/ \E requestId \in 1..MaxRequestsSuspended : WorkerRun(requestId, TRUE)
  \/ \E timer \in 1..MaxRequestsSuspended : timeoutRelockCollection(timer)

SpecSuspended == InitSuspended /\ [][NextSuspended]_vars

\* ------------------------------------------------- standalone device-lock secrets
\* The clients of this specification write the standalone device-lock secret s1,
\* which the bookkeeping database already holds for appA or does not hold at all.
MaxRequestsStandaloneDeviceLock == 2
\* the unlock semantics of SecretManager::DeviceLockUnlockSemantic
DeviceLockUnlockSemantics == {"DeviceLockKeepUnlocked", "DeviceLockVerifyLock"}

InitStandaloneDeviceLock ==
  /\ Constructed({Empty} \cup {PersistedStandalone(m) : m \in PersistedDeviceLockMetas})
  /\ requestsLeft = MaxRequestsStandaloneDeviceLock
  /\ inFlightLimit = MaxInFlight

NextStandaloneDeviceLock ==
  \/ \E callerPid \in Pids, pp \in PluginPairs, secretName \in SecretNames \cup {""},
        uiParamsValid \in BOOLEAN, unlockSemantic \in DeviceLockUnlockSemantics,
        accessControlMode \in AccessControlModes, fault \in {"none", "read", "write", "ui"} :
       setStandaloneDeviceLockSecret(callerPid, pp[1], pp[2], secretName,
                                     IF uiParamsValid THEN "" ELSE "d1", uiParamsValid,
                                     unlockSemantic, accessControlMode, "SystemInteraction",
                                     fault)
  \/ \E requestId \in 1..MaxRequestsStandaloneDeviceLock, fault \in {"none", "write"} :
       writeStandaloneDeviceLockSecretFinished(requestId, fault)
  \/ \E requestId \in 1..MaxRequestsStandaloneDeviceLock,
        result \in {Succeeded, UserCanceled}, userInput \in SecretData,
        fault \in {"none", "write"} :
       userInputInteractionCompleted(requestId, result, userInput, fault)
  \/ \E requestId \in 1..MaxRequestsStandaloneDeviceLock, pluginWorks \in BOOLEAN :
       WorkerRun(requestId, pluginWorks)

SpecStandaloneDeviceLock == InitStandaloneDeviceLock /\ [][NextStandaloneDeviceLock]_vars

\* ------------------------------------------------- the sweep of the master lock change
\* The bookkeeping database of this specification holds the device-lock collection
\* c1, the custom-lock collection c2 and the standalone device-lock secret s1, each
\* in the split or in the fused plugin; the settings application changes the master
\* lock code, and any of the re-encryption jobs of the sweep can fail.
MaxRequestsSweep == 3

PersistedSweep(pp1, pp2, pp3) ==
  LET m1 == Meta("appA", TRUE, pp1[1], pp1[2], "DeviceLockKeepUnlocked", "OwnerOnlyMode")
      m2 == Meta("appA", FALSE, pp2[1], pp2[2], "CustomLockKeepUnlocked", "OwnerOnlyMode")
      m3 == Meta("appA", TRUE, pp3[1], pp3[2], "DeviceLockKeepUnlocked", "OwnerOnlyMode")
      h1 == generateHashedSecretName("c1", "s1")
      h2 == generateHashedSecretName("c2", "s1")
      h3 == generateHashedSecretName("standalone", "s1")
      rows == (<<"c1", h1>> :> m1) @@ (<<"c2", h2>> :> m2) @@ (<<"standalone", h3>> :> m3)
      keyOf(m) == IF m.usesDeviceLockKey THEN InitialDeviceLockKey ELSE PersistedSecretKey
  IN [collections |-> ("c1" :> m1) @@ ("c2" :> m2),
      secrets |-> rows,
      pluginCollections |->
        [q \in StoragePluginNames |->
           [c \in {d \in {"c1", "c2"} : rows[<<d, generateHashedSecretName(d, "s1")>>]
                                            .storagePluginName = q} |->
              LET m == rows[<<c, generateHashedSecretName(c, "s1")>>]
                  fused == m.storagePluginName = m.encryptionPluginName
              IN [key |-> IF fused THEN keyOf(m) ELSE NoKey, locked |-> fused]]],
      pluginSecrets |->
        [q \in StoragePluginNames |->
           [k \in {r \in DOMAIN rows : rows[r].storagePluginName = q} |->
              LET fusedCollection == /\ k[1] # "standalone"
                                     /\ rows[k].storagePluginName = rows[k].encryptionPluginName
              IN [data |-> "d1",
                  key |-> IF fusedCollection THEN NoKey ELSE keyOf(rows[k])]]]]

InitSweep ==
  /\ Constructed({PersistedSweep(pp1, pp2, pp3) : pp1 \in PluginPairs, pp2 \in PluginPairs,
                                                  pp3 \in PluginPairs})
  /\ requestsLeft = MaxRequestsSweep
  /\ inFlightLimit = MaxInFlight

NextSweep ==
  \/ \E callerPid \in {"appA", "settings"}, fault \in {"none", "ui"} :
       modifyLockCode(callerPid, "BookkeepingDatabase", "", "SystemInteraction", fault)
  \/ \E requestId \in 1..MaxRequestsSweep, result \in {Succeeded, UserCanceled},
        userInput \in LockCodes, fault \in {"none", "write", "ui"} :
       userInputInteractionCompleted(requestId, result, userInput, fault)

SpecSweep == InitSweep /\ [][NextSweep]_vars

\* ------------------------------------------------- properties
\* the "dirty" set of rows waiting for another cleanup: the processor keeps none
\* (the TODO of line 654)
dirtyRows == {}

MutatingKinds ==
  {"createDeviceLockCollection", "createCustomLockCollection", "deleteCollection",
   "setCollectionSecret", "deleteCollectionSecret"}
MutatingRequestTypes ==
  {"CreateCustomLockCollectionRequest", "SetCollectionUserInputSecretRequest",
   "SetCollectionSecretRequest", "DeleteCollectionSecretRequest"}

\* the requests on collectionName that were accepted and have not replied: those
\* in the worker pool and those at a prompt
InFlightOn(collectionName) ==
  {r \in DOMAIN jobs : jobs[r].collectionName = collectionName}
    \cup {r \in uiInteractions \cap DOMAIN m_pendingRequests :
            m_pendingRequests[r].collectionName = collectionName}
MutatingInFlightOn(collectionName) ==
  {r \in DOMAIN jobs : /\ jobs[r].collectionName = collectionName
                       /\ jobs[r].kind \in MutatingKinds}
    \cup {r \in uiInteractions \cap DOMAIN m_pendingRequests :
            /\ m_pendingRequests[r].collectionName = collectionName
            /\ m_pendingRequests[r].requestType \in MutatingRequestTypes}
Quiescent == jobs = <<>> /\ uiInteractions = {}
\* this step returns a Result or passes one to requestFinished
Replied == lastReply' # lastReply

\* C1: for every collection name, at every point, at most one mutating request
\* on it (create, delete, set secret, delete secret) is accepted and not yet replied
C1_OneMutatingRequestInFlight ==
  \A c \in CollectionNames : Cardinality(MutatingInFlightOn(c)) <= 1

deleteCollectionInWorkerPhase(c) ==
  \E d \in DOMAIN jobs : jobs[d].kind = "deleteCollection" /\ jobs[d].collectionName = c
\* this step is a call of setCollectionSecret on c
setCollectionSecretCalled(c) ==
  /\ nextRequestId' = nextRequestId + 1
  /\ \/ /\ nextRequestId \in DOMAIN jobs'
        /\ jobs'[nextRequestId].kind = "setCollectionSecret"
        /\ jobs'[nextRequestId].collectionName = c
     \/ /\ nextRequestId \in DOMAIN m_pendingRequests'
        /\ m_pendingRequests'[nextRequestId].requestType
             \in {"SetCollectionUserInputSecretRequest", "SetCollectionSecretRequest"}
        /\ m_pendingRequests'[nextRequestId].collectionName = c
     \/ /\ lastReply'.requestId = nextRequestId
        /\ lastReply'.kind = "setCollectionSecret"
        /\ lastReply'.collectionName = c

\* C2: while a deleteCollection of c is in its worker phase, a setCollectionSecret
\* call on c returns InterleavedRequestError synchronously, inserts no secret row
\* and gives the worker pool nothing to do
C2_SetDuringDeleteIsRefused ==
  [][\A c \in CollectionNames :
       (deleteCollectionInWorkerPhase(c) /\ setCollectionSecretCalled(c))
         => /\ lastReply'.requestId = nextRequestId
            /\ lastReply'.sync
            /\ lastReply'.result = interleavedRequestError
            /\ bkdbSecrets' = bkdbSecrets
            /\ jobs' = jobs]_vars

\* C3: whenever no request on a collection name is in flight, the name is not in
\* the busy set: every terminal path of a request that marked it removes it
C3_BusyOnlyWhileInFlight ==
  \A c \in CollectionNames : InFlightOn(c) = {} => c \notin busy

collectionRowHasPluginObject(c) ==
  c \in DOMAIN pluginCollections[bkdbCollections[c].storagePluginName]
secretRowHasPluginObject(k) ==
  k \in DOMAIN pluginSecrets[bkdbSecrets[k].storagePluginName]

\* C4: after any sequence of calls and completions, every collection row and
\* every secret row has a matching plugin object or is in the dirty set
C4_RowsMatchedOrDirty ==
  Quiescent =>
    /\ \A c \in DOMAIN bkdbCollections :
         collectionRowHasPluginObject(c) \/ c \in dirtyRows
    /\ \A k \in DOMAIN bkdbSecrets :
         secretRowHasPluginObject(k) \/ k \in dirtyRows

\* C5: once no request is in flight, every collection and every secret a
\* plugin holds has its bookkeeping row
C5_NoPluginObjectWithoutRow ==
  Quiescent =>
    \A p \in StoragePluginNames :
      /\ \A c \in DOMAIN pluginCollections[p] : c \in DOMAIN bkdbCollections
      /\ \A k \in DOMAIN pluginSecrets[p] : k \in DOMAIN bkdbSecrets

\* in this step a worker reads the secret of the get request r for its caller;
\* the lambda of getCollectionSecretWithEncryptionKey then hands the caller
\* what the worker read
secretReadFor(r) ==
  /\ r \in DOMAIN jobs
  /\ jobs[r].kind = "getCollectionSecret"
  /\ jobs[r].fn = "readSecret"
  /\ ~jobs[r].ran
  /\ r \in DOMAIN jobs'
  /\ jobs'[r].ran
  /\ jobs'[r].result = Succeeded

\* C6: no request, answered at once or resumed after a passphrase prompt, gets a
\* secret's payload for a caller whose application id fails the access control
\* check of the row of the secret's collection
C6_PayloadOnlyForPermittedCaller ==
  [][\A r \in 1..MaxRequestsChangingHands :
       (secretReadFor(r) /\ collectionAlreadyExists(jobs[r].collectionName))
         => AccessControlResult(bkdbCollections[jobs[r].collectionName],
                                applicationId(jobs[r].callerPid)) = Succeeded]_vars

\* a createDeviceLockCollection call with registered plugins is accepted: it
\* passes the existence and the interleave checks and its row is inserted
createAgainAccepted(collectionName) ==
  createDeviceLockCollectionResult(collectionName, "store", "enc", "none") = Pending

\* this step is the reply of a deleteCollection whose plugin and row deletes succeeded
deleteCollectionSucceeded ==
  /\ Replied
  /\ lastReply'.kind = "deleteCollection"
  /\ ~lastReply'.sync
  /\ lastReply'.result = Succeeded

\* C7: a collection that was created and is then deleted successfully can be
\* created again under its name: the completed delete leaves no row, no busy
\* flag, no cached key and no timer entry, and the next create is accepted
C7_DeleteReleasesName ==
  [][\A c \in CollectionNames :
       (deleteCollectionSucceeded /\ lastReply'.collectionName = c)
         => /\ c \notin collectionNames'
            /\ c \notin busy'
            /\ c \notin DOMAIN m_collectionEncryptionKeys'
            /\ c \notin DOMAIN m_collectionLockTimers'
            /\ createAgainAccepted(c)']_vars

\* appB, which owns no persisted collection, has deleted the collection it
\* created, and the clients can send a create
C7_Witness ==
  /\ lastReply.kind = "deleteCollection"
  /\ ~lastReply.sync
  /\ lastReply.result = Succeeded
  /\ lastReply.callerPid = "appB"
  /\ createAgainAccepted(lastReply.collectionName)
  /\ Quiescent
  /\ requestsLeft > 0

\* this step is the reply of a createDeviceLockCollection whose plugin call failed
createCollectionFailedReply ==
  /\ Replied
  /\ lastReply'.kind = "createDeviceLockCollection"
  /\ ~lastReply'.sync
  /\ lastReply'.pluginResult.code # "Succeeded"

C9_CleanupErrorReplacesPluginError ==
  (/\ lastReply.kind \in {"createDeviceLockCollection", "createCustomLockCollection",
                          "setCollectionSecret"}
   /\ ~lastReply.sync
   /\ lastReply.pluginResult.code # "Succeeded")
    => IF lastReply.cleanupRan /\ lastReply.cleanupResult.code # "Succeeded"
       THEN lastReply.result = lastReply.cleanupResult
       ELSE lastReply.result = lastReply.pluginResult

\* a plugin operation failed and so did the cleanup delete of its row
C9_Witness ==
  /\ lastReply.pluginResult.code # "Succeeded"
  /\ lastReply.cleanupRan
  /\ lastReply.cleanupResult.code # "Succeeded"
  /\ lastReply.result = lastReply.cleanupResult
  /\ lastReply.result # lastReply.pluginResult

\* C10: each time a key of a CustomLockTimoutRelock collection is placed in the
\* key cache, the collection has a relock timer that is running
C10_KeyCachedWithTimer ==
  [][\A c \in CollectionNames :
       (/\ c \notin DOMAIN m_collectionEncryptionKeys
        /\ c \in DOMAIN m_collectionEncryptionKeys'
        /\ c \in DOMAIN bkdbCollections'
        /\ bkdbCollections'[c].unlockSemantic = "CustomLockTimoutRelock")
         => /\ c \in DOMAIN m_collectionLockTimers'
            /\ m_collectionLockTimers'[c] \in timers']_vars

\* in this step the relock timer of collectionName fires
relockTimerFired(collectionName) ==
  /\ collectionName \in DOMAIN m_collectionLockTimers
  /\ m_collectionLockTimers[collectionName] \in timers
  /\ m_collectionLockTimers[collectionName] \notin timers'

\* C11: when the relock timer of a collection fires, its key leaves the key
\* cache and its timer entry is dropped, and the next get, set or
\* delete-secret on it finds no working key at hand, so that it has to go
\* through a fresh unlock
C11_RelockForcesFreshUnlock ==
  [][\A c \in CollectionNames :
       relockTimerFired(c)
         => /\ c \notin DOMAIN m_collectionEncryptionKeys'
            /\ c \notin DOMAIN m_collectionLockTimers'
            /\ c \in DOMAIN bkdbCollections'
                 => ~KeyAtHand(c, bkdbCollections[c])']_vars

\* C12: while the relock timer of a collection is pending, no access to the
\* collection replaces or restarts it: the collection keeps the one timer it
\* has until that timer fires or the collection is deleted, and every timer
\* the processor starts is started for a collection that had none
C12_PendingTimerIsKept ==
  [][/\ \A c \in CollectionNames :
          (c \in DOMAIN m_collectionLockTimers /\ c \in DOMAIN m_collectionLockTimers')
            => /\ m_collectionLockTimers'[c] = m_collectionLockTimers[c]
               /\ m_collectionLockTimers[c] \in timers
               /\ m_collectionLockTimers[c] \in timers'
     /\ \A t \in timers' \ timers :
          \E c \in CollectionNames :
            /\ c \notin DOMAIN m_collectionLockTimers
            /\ c \in DOMAIN m_collectionLockTimers'
            /\ m_collectionLockTimers'[c] = t
            /\ timers' = timers \cup {t}]_vars

\* two reads of a collection have passed getCollectionSecretWithEncryptionKey
\* and the collection has its one pending timer
C12_Witness ==
  \E c \in CollectionNames :
    /\ c \in DOMAIN m_collectionLockTimers
    /\ m_collectionLockTimers[c] \in timers
    /\ Cardinality(timers) = 1
    /\ Cardinality({r \in DOMAIN jobs : /\ jobs[r].kind = "getCollectionSecret"
                                        /\ jobs[r].fn = "readSecret"
                                        /\ jobs[r].collectionName = c}) = 2

\* the relock timer of the standalone secret fires in this step
secretRelockTimerFired(secretName) ==
  /\ secretName \in DOMAIN m_standaloneSecretLockTimers
  /\ m_standaloneSecretLockTimers[secretName] \in secretTimers
  /\ m_standaloneSecretLockTimers[secretName] \notin secretTimers'

\* C13: when the relock timer of a standalone custom-lock secret fires, its key
\* is removed from the standalone key cache and its timer entry is dropped, so
\* the next get_standalone_secret does not find a cached key
C13_SecretRelockEvictsKey ==
  [][\A secretName \in SecretNames :
       secretRelockTimerFired(secretName)
         => /\ generateHashedSecretName("standalone", secretName)
                 \notin DOMAIN m_standaloneSecretEncryptionKeys'
            /\ secretName \notin DOMAIN m_standaloneSecretLockTimers']_vars

\* the plugin holds the secret of the job under the current device lock key: the
\* sweep of the master lock change re-encrypted it
reencryptedSecret(j) ==
  LET p == j.meta.storagePluginName
      k == <<j.collectionName, generateHashedSecretName(j.collectionName, j.secretName)>>
  IN /\ deviceLockKey # InitialDeviceLockKey
     /\ j.collectionName \in DOMAIN bkdbCollections
     /\ bkdbCollections[j.collectionName] = j.meta
     /\ j.meta.usesDeviceLockKey
     /\ k \in DOMAIN pluginSecrets[p]
     /\ j.collectionName \in DOMAIN pluginCollections[p]
     /\ IF j.meta.storagePluginName = j.meta.encryptionPluginName
        THEN pluginCollections[p][j.collectionName].key = deviceLockKey
        ELSE pluginSecrets[p][k].key = deviceLockKey

\* C14: after a successful master lock change whose sweep re-encrypted the
\* collection, a getCollectionSecret on a secret of a device-lock collection
\* (fused or split) dispatches a read that returns the bytes that were stored
C14_MasterLockChangeKeepsSecrets ==
  [][\A requestId \in 1..MaxRequestsModifyLockCode :
       (requestId \notin DOMAIN jobs /\ requestId \in DOMAIN jobs')
         => \A j \in {jobs'[requestId]} :
              (j.kind = "getCollectionSecret" /\ j.fn = "readSecret" /\ reencryptedSecret(j)')
                => /\ RunPlugin(j)'.result = Succeeded
                   /\ RunPlugin(j)'.secret \in SecretData]_vars

\* the read job getCollectionSecret dispatches for the caller when the
\* collection's key is at hand (lines 2300-2372 and 2472-2499)
readDispatched(callerPid, collectionName, secretName) ==
  LET meta == bkdbCollections[collectionName]
  IN Job("getCollectionSecret", "readSecret", callerPid, collectionName, secretName, "",
         "SystemInteraction", meta,
         IF meta.storagePluginName = meta.encryptionPluginName THEN NoKey
         ELSE m_collectionEncryptionKeys[collectionName], FALSE)

\* a getCollectionSecret of the caller is accepted and, the key being at hand,
\* its read gives data
readsBack(callerPid, collectionName, secretName, data) ==
  /\ getCollectionSecretResult(callerPid, collectionName, secretName,
                               "SystemInteraction", "none") = Pending
  /\ KeyAtHand(collectionName, bkdbCollections[collectionName])
       => /\ RunPlugin(readDispatched(callerPid, collectionName, secretName)).result = Succeeded
          /\ RunPlugin(readDispatched(callerPid, collectionName, secretName)).secret = data

workingKeyAvailable(collectionName) ==
  LET meta == bkdbCollections[collectionName]
  IN IF meta.storagePluginName = meta.encryptionPluginName
     THEN /\ collectionName \in DOMAIN pluginCollections[meta.storagePluginName]
          /\ ~pluginCollections[meta.storagePluginName][collectionName].locked
     ELSE collectionName \in DOMAIN m_collectionEncryptionKeys

\* what this step makes of the request
promptedForPassphrase(requestId) ==
  /\ requestId \in uiInteractions'
  /\ requestId \in DOMAIN m_pendingRequests'
  /\ m_pendingRequests'[requestId].requestType
       \in {"SetCollectionSecretRequest", "GetCollectionSecretRequest",
            "DeleteCollectionSecretRequest"}
failedWith(requestId, errorCode) ==
  /\ Replied
  /\ lastReply'.requestId = requestId
  /\ lastReply'.result = Error(errorCode)

\* the outcome for a secret operation of the collection's owner that reaches
\* the decision on the key
keyDecision(requestId, collectionName, userInteractionMode) ==
  IF workingKeyAvailable(collectionName)
  THEN /\ ~promptedForPassphrase(requestId)
       /\ requestId \notin uiInteractions'
       /\ ~failedWith(requestId, "CollectionIsLockedError")
       /\ ~failedWith(requestId, "OperationRequiresUserInteraction")
  ELSE IF bkdbCollections[collectionName].usesDeviceLockKey
  THEN failedWith(requestId, "CollectionIsLockedError")
  ELSE IF userInteractionMode = "PreventInteraction"
  THEN failedWith(requestId, "OperationRequiresUserInteraction")
  ELSE /\ promptedForPassphrase(requestId)
       /\ requestId \notin DOMAIN jobs'
       /\ ~Replied

C17_SuspendedSetContinues ==
  [][\A requestId \in DOMAIN m_pendingRequests, userInput \in Passphrases :
       (/\ m_pendingRequests[requestId].requestType = "SetCollectionSecretRequest"
        /\ userInputInteractionCompleted(requestId, Succeeded, userInput, "none"))
         => /\ ~Replied
            /\ requestId \in DOMAIN jobs'
            /\ jobs'[requestId].kind = "setCollectionSecret"
            /\ jobs'[requestId].fn = "deriveKeyFromCode"
            /\ jobs'[requestId].key = userInput
            /\ jobs'[requestId].collectionName = m_pendingRequests[requestId].collectionName
            /\ jobs'[requestId].secretName = m_pendingRequests[requestId].secretName
            /\ jobs'[requestId].data = m_pendingRequests[requestId].data]_vars

\* C18: m_pendingRequests holds a record for a request exactly while the request
\* waits for the authentication plugin; once its userInputInteractionCompleted
\* was handled no record remains, unless the request suspended again
C18_PendingExactlyWhileSuspended ==
  DOMAIN m_pendingRequests = uiInteractions

\* C19: a userInputInteractionCompleted with the result of a cancelled
\* interaction finishes its request with exactly that result and changes no row
\* of the bookkeeping database, no plugin object, no key cache entry and no busy
\* flag
C19_FailedInteractionChangesNothing ==
  [][\A requestId \in uiInteractions, userInput \in Passphrases \cup SecretData :
       userInputInteractionCompleted(requestId, UserCanceled, userInput, "none")
         => /\ Replied
            /\ lastReply'.requestId = requestId
            /\ lastReply'.result = UserCanceled
            /\ ~lastReply'.hasSecret
            /\ requestId \notin DOMAIN jobs'
            /\ UNCHANGED <<bkdbVars, pluginVars, busy, m_collectionEncryptionKeys,
                           m_standaloneSecretEncryptionKeys>>]_vars

\* a prompt was cancelled while the processor held a key and a busy flag
C19_Witness ==
  /\ lastReply.result = UserCanceled
  /\ ~lastReply.sync
  /\ lastReply.requestId \notin uiInteractions
  /\ DOMAIN m_collectionEncryptionKeys # {}
  /\ busy # {}

\* the request returned Pending and its outcome is not posted yet: it waits for
\* the authentication plugin, or for a job of the thread pool or its watcher
outstanding(requestId) == requestId \in uiInteractions \/ requestId \in DOMAIN jobs

\* C20: every request that returned Pending is answered in the end, the jobs and
\* the interactions completing; an outcome is posted for a request only while it
\* is called or outstanding, and it ends the request, so that no request gets a
\* second outcome and none gets an outcome after a Result returned by its call
C20_EveryRequestIsAnsweredOnce ==
  /\ \A requestId \in 1..MaxRequestsFair : outstanding(requestId) ~> ~outstanding(requestId)
  /\ [][\A requestId \in 1..MaxRequestsFair :
          /\ (Replied /\ lastReply'.requestId = requestId)
               => /\ outstanding(requestId) \/ requestId = nextRequestId
                  /\ ~outstanding(requestId)'
                  /\ lastReply'.sync => requestId = nextRequestId
                  /\ lastReply'.result # Pending
          /\ (outstanding(requestId) /\ ~outstanding(requestId)')
               => (Replied /\ lastReply'.requestId = requestId)
          /\ (requestId = nextRequestId /\ nextRequestId' # nextRequestId
                /\ ~outstanding(requestId)')
               => (Replied /\ lastReply'.requestId = requestId)]_vars

\* a read that returned Pending, asked for the passphrase, and was answered with
\* the secret
C20_Witness ==
  /\ lastReply.kind = "getCollectionSecret"
  /\ ~lastReply.sync
  /\ lastReply.hasSecret
  /\ ~outstanding(lastReply.requestId)
  /\ m_collectionLockTimers # <<>>

\* ------------------------------------------------- the validation preamble
\* the reply of this step is the call's own return value, it carries errorCode,
\* and the step leaves rows, plugin contents, busy set, keys, timers, pending
\* requests, prompts and dispatched jobs as they were
refusedUntouched(errorCode) ==
  /\ Replied
  /\ lastReply'.sync
  /\ lastReply'.result = Error(errorCode)
  /\ UNCHANGED <<bkdbVars, pluginVars, busy, keyVars, m_pendingRequests, uiInteractions,
                 jobs, restVars>>

\* a collection name that is neither empty nor the reserved one
wellFormedName(collectionName) == collectionName # "" /\ ~IsReservedName(collectionName)

\* collectionName is a row of an OwnerOnly collection of another application
ownedByAnother(callerPid, collectionName) ==
  /\ collectionName \in DOMAIN bkdbCollections
  /\ bkdbCollections[collectionName].accessControlMode = "OwnerOnlyMode"
  /\ bkdbCollections[collectionName].applicationId # applicationId(callerPid)

\* C21: get_collection_secret, set_collection_secret, delete_collection_secret,
\* find_collection_secrets and delete_collection, called with well-formed names
\* by an application that is not the owner of an OwnerOnly collection, return
\* PermissionsError from the call itself, and the step starts no prompt, dispatches
\* no plugin job and changes no row, key, timer or busy entry.
C21_NonOwnerIsRefused ==
  [][\A callerPid \in Pids, collectionName \in AccessControlNames,
        uim \in UserInteractionModes :
       /\ wellFormedName(collectionName)
       /\ ownedByAnother(callerPid, collectionName)
       /\ \/ getCollectionSecret(callerPid, collectionName, "s1", uim, "none")
          \/ setCollectionSecret(callerPid, collectionName, "s1", "d1", FALSE, uim, "none")
          \/ deleteCollectionSecret(callerPid, collectionName, "s1", uim, "none")
          \/ findCollectionSecrets(callerPid, collectionName, FALSE, uim, "none")
          \/ deleteCollection(callerPid, collectionName, "SystemInteraction", "none")
       => refusedUntouched("PermissionsError")]_vars

\* appB has been refused a find in the OwnerOnly collection c1 of appA
C21_Witness ==
  /\ lastReply.kind = "findCollectionSecrets"
  /\ lastReply.callerPid = "appB"
  /\ lastReply.collectionName = "c1"
  /\ lastReply.sync
  /\ lastReply.result = Error("PermissionsError")
  /\ "c1" \in DOMAIN bkdbCollections
  /\ bkdbCollections["c1"].applicationId = "appA"
  /\ bkdbCollections["c1"].accessControlMode = "OwnerOnlyMode"

\* collectionName is a row whose access control mode is System
systemControlled(collectionName) ==
  /\ collectionName \in DOMAIN bkdbCollections
  /\ bkdbCollections[collectionName].accessControlMode = "SystemAccessControlMode"

\* C22: every operation on an existing collection (or a secret of it) whose
\* access control mode is System, called with well-formed names by any
\* application while no other request holds the collection, returns
\* OperationNotSupportedError from the call itself and changes nothing.
C22_SystemModeIsRefused ==
  [][\A callerPid \in Pids, collectionName \in AccessControlNames,
        uim \in UserInteractionModes :
       /\ wellFormedName(collectionName)
       /\ systemControlled(collectionName)
       /\ interleavedRequestsAllowed(collectionName)
       /\ \/ getCollectionSecret(callerPid, collectionName, "s1", uim, "none")
          \/ setCollectionSecret(callerPid, collectionName, "s1", "d1", FALSE, uim, "none")
          \/ deleteCollectionSecret(callerPid, collectionName, "s1", uim, "none")
          \/ findCollectionSecrets(callerPid, collectionName, FALSE, uim, "none")
          \/ deleteCollection(callerPid, collectionName, "SystemInteraction", "none")
          \/ setCollectionSecretMetadata(callerPid, collectionName, "s1", "none")
          \/ deleteCollectionSecretMetadata(callerPid, collectionName, "s1", "none")
       => refusedUntouched("OperationNotSupportedError")]_vars

\* C27: delete_collection_secret_metadata called with well-formed names by an
\* application that is not the owner of the OwnerOnly collection returns
\* PermissionsError, and the secret's bookkeeping row stays.
C27_MetadataDeleteChecksOwner ==
  [][\A callerPid \in Pids, collectionName \in AccessControlNames :
       /\ wellFormedName(collectionName)
       /\ ownedByAnother(callerPid, collectionName)
       /\ deleteCollectionSecretMetadata(callerPid, collectionName, "s1", "none")
       => /\ Replied
          /\ lastReply'.result = Error("PermissionsError")
          /\ UNCHANGED bkdbSecrets]_vars

\* the step is the synchronous refusal of a call, with one of errorCodes, that
\* leaves every row, plugin object, key, timer, prompt and job as it was
refusedUntouchedWith(errorCodes) ==
  \E errorCode \in errorCodes : refusedUntouched(errorCode)

\* the errors the name checks owe a call on collectionName and secretName
nameErrors(collectionName, secretName) ==
  {"InvalidCollectionError" : x \in {1} \cap {IF wellFormedName(collectionName) THEN 0 ELSE 1}}
    \cup {"InvalidSecretError" : x \in {1} \cap {IF secretName = "" THEN 1 ELSE 0}}

\* C23: a call that addresses a collection by an empty name or by the reserved
\* name standalone (in either letter case) is refused with InvalidCollectionError,
\* and one with an empty secret name with InvalidSecretError, by the call itself
\* and with no effect; and no row of the collections table ever has an empty or
\* reserved name.
C23_IllFormedNamesAreRejected ==
  /\ [][\A callerPid \in Pids, collectionName \in AccessControlNames,
           secretName \in AccessControlSecretNames, uim \in UserInteractionModes,
           pp \in PluginPairs, accessControlMode \in AllAccessControlModes :
          /\ \/ /\ nameErrors(collectionName, secretName) # {}
                /\ \/ getCollectionSecret(callerPid, collectionName, secretName, uim, "none")
                   \/ setCollectionSecret(callerPid, collectionName, secretName, "d1", FALSE,
                                          uim, "none")
                   \/ deleteCollectionSecret(callerPid, collectionName, secretName, uim, "none")
                   \/ setCollectionSecretMetadata(callerPid, collectionName, secretName, "none")
                   \/ deleteCollectionSecretMetadata(callerPid, collectionName, secretName,
                                                     "none")
             \/ /\ nameErrors(collectionName, "s1") # {}
                /\ secretName = "s1"
                /\ \/ findCollectionSecrets(callerPid, collectionName, FALSE, uim, "none")
                   \/ deleteCollection(callerPid, collectionName, "SystemInteraction", "none")
                   \/ createDeviceLockCollection(callerPid, collectionName, pp[1], pp[2],
                                                 "DeviceLockKeepUnlocked", accessControlMode,
                                                 "none")
          => refusedUntouchedWith(nameErrors(collectionName, secretName))]_vars
  /\ [](\A collectionName \in DOMAIN bkdbCollections : wellFormedName(collectionName))

\* C25: delete_collection on a well-formed name that has no row in the
\* collections table returns Succeeded from the call itself, dispatches no plugin
\* job and changes no row, busy entry, key or timer.
C25_DeleteOfMissingCollectionSucceeds ==
  [][\A callerPid \in Pids, collectionName \in AccessControlNames :
       /\ wellFormedName(collectionName)
       /\ ~collectionAlreadyExists(collectionName)
       /\ deleteCollection(callerPid, collectionName, "SystemInteraction", "none")
       => /\ Replied
          /\ lastReply'.sync
          /\ lastReply'.result = Succeeded
          /\ UNCHANGED <<bkdbVars, pluginVars, busy, keyVars, m_pendingRequests,
                         uiInteractions, jobs, restVars>>]_vars

\* the second request, a delete of c1, found no row of c1 and succeeded
C25_Witness ==
  /\ lastReply.kind = "deleteCollection"
  /\ lastReply.requestId = 2
  /\ lastReply.collectionName = "c1"
  /\ lastReply.sync
  /\ lastReply.result = Succeeded
  /\ ~collectionAlreadyExists("c1")
  /\ \A p \in StoragePluginNames : "c1" \notin DOMAIN pluginCollections[p]

\* C24: modify_lock_code, provide_lock_code and forget_lock_code on the
\* bookkeeping database or on a plugin, called by one of the applications Pids
\* (none of them the platform application), return PermissionsError from the call itself; the step
\* starts no prompt and changes no key, lock state, plugin content or row.
C24_LockCodeOnlyForPlatformApplication ==
  [][\A callerPid \in Pids,
        lockCodeTargetType \in {"BookkeepingDatabase", "ExtensionPlugin"},
        lockCodeTarget \in LockCodeTargets :
       \/ modifyLockCode(callerPid, lockCodeTargetType, lockCodeTarget,
                         "SystemInteraction", "none")
       \/ provideLockCode(callerPid, lockCodeTargetType, lockCodeTarget,
                          "SystemInteraction", "none")
       \/ forgetLockCode(callerPid, lockCodeTargetType, lockCodeTarget,
                         "SystemInteraction", "none")
       => refusedUntouched("PermissionsError")]_vars

\* appA has been refused a forget_lock_code while the platform application had
\* the bookkeeping database locked
C24_Witness ==
  /\ lastReply.kind = "forgetLockCode"
  /\ lastReply.callerPid = "appA"
  /\ lastReply.sync
  /\ lastReply.result = Error("PermissionsError")
  /\ isLocked

\* collectionName is a custom-lock collection on split plugins that relocks on timeout
splitTimeoutRelock(collectionName) ==
  /\ collectionName \in DOMAIN bkdbCollections
  /\ bkdbCollections[collectionName].storagePluginName
       # bkdbCollections[collectionName].encryptionPluginName
  /\ ~bkdbCollections[collectionName].usesDeviceLockKey
  /\ bkdbCollections[collectionName].unlockSemantic = "CustomLockTimoutRelock"

\* what get_collection_secret of the owner on collectionName comes to in this
\* state: the error it returns, or "prompt" when it starts a passphrase prompt,
\* or "read" when it dispatches the read
getOutcome(collectionName, userInteractionMode) ==
  LET meta == bkdbCollections[collectionName]
      result == getCollectionSecretResult(meta.applicationId, collectionName, "s1",
                                          userInteractionMode, "none")
  IN IF result # Pending THEN result.errorCode
     ELSE IF KeyAtHand(collectionName, meta) THEN "read"
     ELSE "prompt"

createDispatched ==
  {requestId \in DOMAIN jobs :
     /\ jobs[requestId].kind \in {"createDeviceLockCollection", "createCustomLockCollection"}
     /\ jobs[requestId].fn = "createCollection"}

\* this step is the lambda of the dispatched plugin createCollection of requestId
createLambdaRan(requestId) ==
  /\ requestId \in createDispatched
  /\ requestId \notin DOMAIN jobs'

\* the create requests whose row insert went through: those that have a job
createInserted ==
  {requestId \in DOMAIN jobs :
     jobs[requestId].kind \in {"createDeviceLockCollection", "createCustomLockCollection"}}

\* C28: a create request starts its plugin work in the step that has inserted
\* the collection's row, so the plugin create is dispatched only for a request
\* whose row was inserted; the lambda of the plugin create runs the cleanup
\* delete of the row exactly when the plugin create failed, and after a plugin
\* create that succeeded it leaves the bookkeeping rows as they are
C28_RowBeforePluginCreate ==
  [][\A requestId \in 1..MaxRequests :
       /\ (requestId \in createInserted' /\ requestId \notin DOMAIN jobs)
            => /\ jobs'[requestId].collectionName \notin DOMAIN bkdbCollections
               /\ jobs'[requestId].collectionName \in DOMAIN bkdbCollections'
               /\ bkdbCollections'[jobs'[requestId].collectionName] = jobs'[requestId].meta
       /\ (requestId \in createDispatched' /\ requestId \notin createDispatched)
            => \/ requestId \in createInserted
               \/ jobs'[requestId].collectionName \in DOMAIN bkdbCollections'
       /\ createLambdaRan(requestId)
            => LET j == jobs[requestId]
               IN /\ lastReply'.requestId = requestId
                  /\ lastReply'.cleanupRan <=> (j.result.code # "Succeeded")
                  /\ (lastReply'.cleanupRan /\ lastReply'.cleanupResult = Succeeded)
                       => j.collectionName \notin DOMAIN bkdbCollections'
                  /\ ~lastReply'.cleanupRan => UNCHANGED bkdbVars]_vars

\* the plugin failed the createCollection of a createCustomLockCollection whose
\* row had been inserted, and the cleanup delete removed the row
C28_Witness ==
  /\ lastReply.kind = "createCustomLockCollection"
  /\ ~lastReply.sync
  /\ lastReply.pluginResult.code # "Succeeded"
  /\ lastReply.cleanupRan
  /\ lastReply.cleanupResult = Succeeded
  /\ lastReply.collectionName \notin DOMAIN bkdbCollections

\* the deleteCollection requests that are accepted and whose lambda has not run
deleteCollectionInFlight ==
  {requestId \in DOMAIN jobs : jobs[requestId].kind = "deleteCollection"}

\* C29: the steps of a deleteCollection that come before its lambda (its
\* acceptance, the plugin's removeCollection) leave the collection's row, cached
\* key and timer entry alone; the lambda removes the key and the timer entry,
\* and the row when the database delete works, only when the plugin did not
\* fail, and when the plugin failed it replies the plugin's Result and leaves
\* row, key and timer entry in place
C29_DeleteAfterPluginRemove ==
  [][\A requestId \in 1..MaxRequests :
       /\ (requestId \in deleteCollectionInFlight'
             /\ (requestId \notin DOMAIN jobs \/ jobs'[requestId] # jobs[requestId]))
            => UNCHANGED <<bkdbVars, m_collectionEncryptionKeys, m_collectionLockTimers>>
       /\ (requestId \in deleteCollectionInFlight /\ requestId \notin DOMAIN jobs')
            => LET j == jobs[requestId]
               IN /\ j.ran
                  /\ lastReply'.requestId = requestId
                  /\ IF j.result.code = "Failed"
                     THEN /\ lastReply'.result = j.result
                          /\ UNCHANGED <<bkdbVars, m_collectionEncryptionKeys,
                                         m_collectionLockTimers>>
                     ELSE /\ j.collectionName \notin DOMAIN m_collectionEncryptionKeys'
                          /\ j.collectionName \notin DOMAIN m_collectionLockTimers'
                          /\ lastReply'.result = Succeeded
                               => j.collectionName \notin DOMAIN bkdbCollections']_vars

\* the plugin failed the removeCollection of a deleteCollection: the reply is
\* the plugin's error and the collection still has its row and its cached key
C29_Witness ==
  /\ lastReply.kind = "deleteCollection"
  /\ ~lastReply.sync
  /\ lastReply.result.code = "Failed"
  /\ lastReply.result = lastReply.pluginResult
  /\ lastReply.collectionName \in DOMAIN bkdbCollections
  /\ lastReply.collectionName \in DOMAIN m_collectionEncryptionKeys

\* the setCollectionSecret requests whose plugin write is dispatched and whose
\* lambda has not run yet
storeDispatched ==
  {requestId \in DOMAIN jobs :
     /\ jobs[requestId].kind = "setCollectionSecret"
     /\ jobs[requestId].fn = "storeSecret"}

\* the key of the Secrets row of the secret that job j writes
secretRowOf(j) == <<j.collectionName, generateHashedSecretName(j.collectionName, j.secretName)>>

\* C30: the step that dispatches the plugin write of a setCollectionSecret
\* inserts the secret's row when the row is not there and changes no row when it
\* is, so the row is in place before the plugin writes; the finalise runs the
\* cleanup delete of the row exactly when the plugin write failed and this
\* request had inserted the row, and otherwise leaves the Secrets rows as they are
C30_CleanupOnlyOwnRow ==
  [][\A requestId \in 1..MaxRequests :
       /\ (requestId \in storeDispatched' /\ requestId \notin storeDispatched)
            => LET j == jobs'[requestId]
               IN /\ j.secretAlreadyExists <=> (secretRowOf(j) \in DOMAIN bkdbSecrets)
                  /\ secretRowOf(j) \in DOMAIN bkdbSecrets'
                  /\ DOMAIN bkdbSecrets' = DOMAIN bkdbSecrets \cup {secretRowOf(j)}
                  /\ \A k \in DOMAIN bkdbSecrets : bkdbSecrets'[k] = bkdbSecrets[k]
       /\ (requestId \in storeDispatched /\ requestId \notin DOMAIN jobs')
            => LET j == jobs[requestId]
               IN /\ lastReply'.requestId = requestId
                  /\ lastReply'.cleanupRan
                       <=> (j.result.code = "Failed" /\ ~j.secretAlreadyExists)
                  /\ (lastReply'.cleanupRan /\ lastReply'.cleanupResult = Succeeded)
                       => secretRowOf(j) \notin DOMAIN bkdbSecrets'
                  /\ ~lastReply'.cleanupRan => UNCHANGED bkdbSecrets]_vars

\* the plugin failed the write of a setCollectionSecret on a secret whose row
\* was there before the request: no cleanup ran and the row is still there
C30_Witness ==
  /\ lastReply.kind = "setCollectionSecret"
  /\ ~lastReply.sync
  /\ lastReply.pluginResult.code = "Failed"
  /\ ~lastReply.cleanupRan
  /\ lastReply.result = lastReply.pluginResult
  /\ \E k \in DOMAIN bkdbSecrets : k[1] = lastReply.collectionName

\* this step resumes the suspended createCustomLockCollection requestId with the
\* user's input
createResumed(requestId) ==
  /\ requestId \in DOMAIN m_pendingRequests
  /\ m_pendingRequests[requestId].requestType = "CreateCustomLockCollectionRequest"
  /\ requestId \notin DOMAIN m_pendingRequests'

\* a resumed createCustomLockCollection that finds the collection's row in place
\* is answered CollectionAlreadyExistsError (or the database's error when the
\* existence check fails), inserts no row and dispatches nothing
resumedCreateOfExistingIsRefused ==
  \A requestId \in 1..MaxRequests :
    (createResumed(requestId)
       /\ m_pendingRequests[requestId].collectionName \in DOMAIN bkdbCollections)
      => /\ lastReply'.requestId = requestId
         /\ lastReply'.result \in {Error("CollectionAlreadyExistsError"), DatabaseError}
         /\ UNCHANGED <<bkdbVars, pluginVars, busy>>
         /\ requestId \notin DOMAIN jobs'

\* C31 as stated: a createCustomLockCollection resumed after the collection came
\* into existence is refused without effect, and of the creates of one
\* collection at most one is at the plugin create step at any time
C31_OneCreateReachesThePlugin ==
  /\ [][resumedCreateOfExistingIsRefused]_vars
  /\ [](\A r1, r2 \in createDispatched :
          jobs[r1].collectionName = jobs[r2].collectionName => r1 = r2)

\* the first half of C31 alone
C31_ResumedCreateIsRefused == [][resumedCreateOfExistingIsRefused]_vars

\* a createCustomLockCollection was resumed on a collection that had come into
\* existence meanwhile and was refused
C31_ResumedOnExisting ==
  /\ lastReply.kind = "createCustomLockCollection"
  /\ lastReply.result = Error("CollectionAlreadyExistsError")
  /\ ~lastReply.sync
  /\ lastReply.collectionName \in DOMAIN bkdbCollections

\* the setCollectionSecret requests suspended at a prompt (for the secret's data
\* or for the passphrase)
setSuspended ==
  {requestId \in DOMAIN m_pendingRequests :
     m_pendingRequests[requestId].requestType
       \in {"SetCollectionUserInputSecretRequest", "SetCollectionSecretRequest"}}

\* this step resumes the suspended setCollectionSecret requestId on a collection
\* that has no row any more
setResumedOnVanished(requestId) ==
  /\ requestId \in setSuspended
  /\ m_pendingRequests[requestId].collectionName \notin DOMAIN bkdbCollections
  /\ \/ requestId \notin DOMAIN m_pendingRequests'
     \/ m_pendingRequests'[requestId] # m_pendingRequests[requestId]

\* C32: a setCollectionSecret resumed from its prompt after the collection's row
\* was deleted inserts no secret row and dispatches no store to the plugin
C32_ResumedSetWritesNothing ==
  [][\A requestId \in 1..MaxRequests :
       setResumedOnVanished(requestId)
         => /\ UNCHANGED <<bkdbVars, pluginVars>>
            /\ requestId \notin DOMAIN jobs']_vars

\* key is the key that the secrets of collectionName are stored under in the
\* storage plugin of meta
isCorrectKey(collectionName, meta, key) ==
  \A k \in DOMAIN pluginSecrets[meta.storagePluginName] :
    k[1] = collectionName => pluginSecrets[meta.storagePluginName][k].key = key

\* this step is the reply of the read of a getCollectionSecret or
\* findCollectionSecrets on split plugins that failed under a key that is not
\* the collection's
wrongKeyReadFailed(requestId) ==
  /\ requestId \in DOMAIN jobs
  /\ requestId \notin DOMAIN jobs'
  /\ jobs[requestId].kind \in {"getCollectionSecret", "findCollectionSecrets"}
  /\ jobs[requestId].fn \in {"readSecret", "findSecrets"}
  /\ jobs[requestId].meta.storagePluginName # jobs[requestId].meta.encryptionPluginName
  /\ ~jobs[requestId].meta.usesDeviceLockKey
  /\ jobs[requestId].result.code # "Succeeded"
  /\ ~isCorrectKey(jobs[requestId].collectionName, jobs[requestId].meta, jobs[requestId].key)

\* C33 as stated: after a get or find on split plugins has failed because the
\* passphrase was wrong, the key cache holds no key for the collection, so that
\* the next request prompts again
C33_WrongKeyIsNotKept ==
  [][\A requestId \in 1..MaxRequests :
       wrongKeyReadFailed(requestId)
         => jobs[requestId].collectionName \notin DOMAIN m_collectionEncryptionKeys']_vars

\* this step is the plugin call of the deleteCollectionSecret requestId on a
\* custom-lock collection on split plugins, and it removes the secret from the
\* storage plugin
secretRemovedBy(requestId) ==
  /\ requestId \in DOMAIN jobs
  /\ jobs[requestId].kind = "deleteCollectionSecret"
  /\ jobs[requestId].fn = "removeSecret"
  /\ jobs[requestId].meta.storagePluginName # jobs[requestId].meta.encryptionPluginName
  /\ ~jobs[requestId].meta.usesDeviceLockKey
  /\ ~jobs[requestId].ran
  /\ requestId \in DOMAIN jobs' /\ jobs'[requestId].ran
  /\ secretRowOf(jobs[requestId]) \in DOMAIN pluginSecrets[jobs[requestId].meta.storagePluginName]
  /\ secretRowOf(jobs[requestId])
       \notin DOMAIN pluginSecrets'[jobs[requestId].meta.storagePluginName]

\* C34 as stated: a deleteCollectionSecret on a custom-lock collection on split
\* plugins removes the secret only under the collection's correct key, the one
\* derived from the correct passphrase
C34_DeleteNeedsCorrectPassphrase ==
  [][\A requestId \in 1..MaxRequests :
       secretRemovedBy(requestId)
         => pluginSecrets[jobs[requestId].meta.storagePluginName]
              [secretRowOf(jobs[requestId])].key = jobs[requestId].key]_vars

\* the worker's write of the standalone device-lock secret of requestId failed, for a
\* secret whose row was there when the request came in
standaloneWriteFailedOnExisting(requestId) ==
  /\ requestId \in DOMAIN jobs
  /\ jobs[requestId].kind = "setStandaloneDeviceLockSecret"
  /\ jobs[requestId].ran
  /\ jobs[requestId].result.code = "Failed"
  /\ jobs[requestId].secretAlreadyExists

\* C35: when setStandaloneDeviceLockSecret targets a standalone secret that already
\* exists and the plugin write fails, the bookkeeping row is left, at the reply, with
\* the owner, plugins, unlock semantic and access-control mode it had before the
\* request. Stated for the first request of a behaviour, for which the row before the
\* request is the persisted row, one of PersistedDeviceLockMetas.
C35_FailedWriteLeavesExistingRow ==
  [][\A requestId \in DOMAIN jobs :
       (/\ standaloneWriteFailedOnExisting(requestId)
        /\ requestId \notin DOMAIN jobs'
        /\ nextRequestId = 2)
       => LET k == <<"standalone",
                     generateHashedSecretName("standalone", jobs[requestId].secretName)>>
          IN /\ k \in DOMAIN bkdbSecrets'
             /\ bkdbSecrets'[k] \in PersistedDeviceLockMetas]_vars

\* requestId is a modifyLockCode on the bookkeeping database whose old lock code was
\* typed at the first prompt and which waits at the prompt for the new one
atNewLockCodePrompt(requestId) ==
  /\ requestId \in uiInteractions
  /\ requestId \in DOMAIN m_pendingRequests
  /\ m_pendingRequests[requestId].requestType = "ModifyLockCodeRequest"
  /\ m_pendingRequests[requestId].lockCodeTargetType = "BookkeepingDatabase"
  /\ Len(m_pendingRequests[requestId].lockCodes) = 1

\* the key a collection or a secret is kept under in a plugin changes in this step,
\* and not by a job of the worker pool that stores the secret anew
reencryptionStarted ==
  \E p \in StoragePluginNames :
    \/ \E c \in DOMAIN pluginCollections[p] \cap DOMAIN pluginCollections'[p] :
         pluginCollections'[p][c].key # pluginCollections[p][c].key
    \/ \E k \in DOMAIN pluginSecrets[p] \cap DOMAIN pluginSecrets'[p] :
         /\ pluginSecrets'[p][k].key # pluginSecrets[p][k].key
         /\ jobs' = jobs

\* C36: for modifyLockCode on the bookkeeping database, the key data change and a
\* re-encryption starts only in the step in which the prompt for the new lock code
\* completes successfully, the prompt for the old lock code having completed before
\* it, and only when the old lock code tests good against the current key; an old
\* lock code that does not is answered with SecretsDaemonLockedError and leaves the
\* keys, the bookkeeping database and the plugins as they were.
C36_KeysChangeOnlyAfterBothPrompts ==
  [][/\ (deviceLockKey' # deviceLockKey \/ reencryptionStarted)
          => \E requestId \in DOMAIN m_pendingRequests :
               /\ atNewLockCodePrompt(requestId)
               /\ deviceLockKeyOf(m_pendingRequests[requestId].lockCodes[1]) = deviceLockKey
               /\ requestId \notin uiInteractions'
               /\ lastReply'.requestId = requestId
               /\ lastReply'.result = Succeeded
     /\ \A requestId \in DOMAIN m_pendingRequests :
          (/\ atNewLockCodePrompt(requestId)
           /\ deviceLockKeyOf(m_pendingRequests[requestId].lockCodes[1]) # deviceLockKey
           /\ requestId \notin DOMAIN m_pendingRequests')
          => /\ lastReply'.requestId = requestId
             /\ lastReply'.result = Error("SecretsDaemonLockedError")
             /\ UNCHANGED <<deviceLockKey, bkdbVars, pluginVars, lockVars,
                            m_collectionEncryptionKeys>>]_vars

\* a master lock change went through: both prompts completed, the old lock code
\* tested good and the device lock key is the one of the new lock code
C36_Witness ==
  /\ lastReply.kind = "modifyLockCode"
  /\ lastReply.result = Succeeded
  /\ deviceLockKey = deviceLockKeyOf("new")
  /\ \E p \in StoragePluginNames : \E k \in DOMAIN pluginSecrets[p] :
       pluginSecrets[p][k].key = deviceLockKeyOf("new")

collectionUnder(pc, ps, c, key) ==
  LET p == bkdbCollections[c].storagePluginName
  IN IF bkdbCollections[c].storagePluginName = bkdbCollections[c].encryptionPluginName
     THEN c \in DOMAIN pc[p] /\ pc[p][c].key = key
     ELSE \A k \in DOMAIN ps[p] : k[1] = c => ps[p][k].key = key

\* the standalone secret of the hashed name h is kept under the key
standaloneUnder(ps, h, key) ==
  LET p == bkdbSecrets[<<"standalone", h>>].storagePluginName
  IN /\ <<"standalone", h>> \in DOMAIN ps[p]
     /\ ps[p][<<"standalone", h>>].key = key

\* the step in which the master lock change of requestId is carried out
masterLockChanged(requestId) ==
  /\ atNewLockCodePrompt(requestId)
  /\ requestId \notin DOMAIN m_pendingRequests'
  /\ lastReply'.requestId = requestId
  /\ deviceLockKey' # deviceLockKey

\* C38: in the sweep of a master lock change, the failure of a re-encryption job does
\* not stop the sweep: when a job has failed, every device-lock collection and every standalone device-lock
\* secret kept under the old device lock key, other than the ones whose job failed,
\* is kept under the new key after the step; the custom-lock collections are kept as
\* they were; the reply is the result of the re-encryption of the bookkeeping database.
C38_SweepGoesOnAfterFailure ==
  [][\A requestId \in DOMAIN m_pendingRequests :
       (masterLockChanged(requestId) /\ lastReply'.warnings # {})
       => /\ lastReply'.result = Succeeded
          /\ \A c \in DOMAIN bkdbCollections :
               IF bkdbCollections[c].usesDeviceLockKey
               THEN (/\ c \notin lastReply'.warnings
                     /\ collectionUnder(pluginCollections, pluginSecrets, c, deviceLockKey))
                    => collectionUnder(pluginCollections', pluginSecrets', c, deviceLockKey')
               ELSE \A key \in {PersistedSecretKey} :
                      collectionUnder(pluginCollections, pluginSecrets, c, key)
                      => collectionUnder(pluginCollections', pluginSecrets', c, key)
          /\ \A k \in DOMAIN bkdbSecrets :
               (/\ k[1] = "standalone"
                /\ bkdbSecrets[k].usesDeviceLockKey
                /\ k[2] \notin lastReply'.warnings
                /\ standaloneUnder(pluginSecrets, k[2], deviceLockKey))
               => standaloneUnder(pluginSecrets', k[2], deviceLockKey')]_vars

\* a request that addresses the collection is at a prompt or in the worker pool
requestInFlightOn(collectionName) ==
  \/ \E requestId \in DOMAIN jobs : jobs[requestId].collectionName = collectionName
  \/ \E requestId \in uiInteractions \cap DOMAIN m_pendingRequests :
       m_pendingRequests[requestId].collectionName = collectionName

\* C39: whenever a collection has no row in the bookkeeping database and no request
\* that addresses it is in flight, the key cache holds no key for it and no relock
\* timer is armed for it, also after a get or a find on it waited at a prompt while
\* it was deleted.
C39_NoKeyAndNoTimerWithoutRow ==
  \A collectionName \in CollectionNames :
    (/\ collectionName \notin DOMAIN bkdbCollections
     /\ ~requestInFlightOn(collectionName))
    => /\ collectionName \notin DOMAIN m_collectionEncryptionKeys
       /\ collectionName \notin DOMAIN m_collectionLockTimers

\* collectionName is a custom-lock collection of an encrypted storage plugin that is
\* relocked after a timeout
fusedTimeoutRelock(collectionName) ==
  /\ collectionName \in DOMAIN bkdbCollections
  /\ bkdbCollections[collectionName].storagePluginName
       = bkdbCollections[collectionName].encryptionPluginName
  /\ ~bkdbCollections[collectionName].usesDeviceLockKey
  /\ bkdbCollections[collectionName].unlockSemantic = "CustomLockTimoutRelock"

\* C40: once the relock timer of a custom-lock collection of an encrypted storage
\* plugin with CustomLockTimoutRelock has fired after an unlock, the collection is
\* locked again: a get of the owner no longer goes to the read of the secret, it
\* asks for the passphrase or, in PreventInteraction mode, is refused.
C40_FusedRelockLocksAgain ==
  [][\A c \in CollectionNames :
       (relockTimerFired(c) /\ fusedTimeoutRelock(c))
         => /\ getOutcome(c, "SystemInteraction")' = "prompt"
            /\ getOutcome(c, "PreventInteraction")' # "read"]_vars

====
